---- MODULE Spec2Model ----
(***************************************************************************)
(* Working-copy metadata engine (subversion/libsvn_wc/wc_db.c).            *)
(*                                                                         *)
(* One working copy rooted at W whose database W/.svn/wc.db holds the      *)
(* BASE_NODE, WORKING_NODE, ACTUAL_NODE, PRISTINE and REPOSITORY tables.   *)
(* A local_relpath is a sequence of path segments: "" is <<>> and "a/b"    *)
(* is <<"a", "b">>.  A table is a function from the relpaths that have a   *)
(* row to that row.                                                        *)
(***************************************************************************)
EXTENDS Integers, Sequences, FiniteSets, TLC

VARIABLES
  base_node,      \* BASE_NODE rows of the wcroot, keyed by local_relpath
  working_node,   \* WORKING_NODE rows
  actual_node,    \* ACTUAL_NODE rows
  pristine,       \* PRISTINE rows: checksum text -> size
  repository,     \* REPOSITORY rows: id -> [root, uuid]
  dir_data,       \* db->dir_data: directory -> per-directory handle (pdh)
  ret,            \* the last public call: its arguments, outcome, pre-state
  nops,           \* number of mutating calls made
  wc_lock,        \* WC_LOCK rows: the set of locked local_dir_relpaths
  locked,         \* the directories whose pdh->locked is set in this engine
  peer,           \* a second engine instance open on the same database
  work_queue,     \* WORK_QUEUE rows: id -> work item
  sqlite_sequence,\* the highest id WORK_QUEUE ever handed out
  format,         \* the schema version stored in wc.db
  engine,         \* auto_upgrade and enforce_empty_wq of this svn_wc__db_t
  pristine_files, \* the file names present in the pristine directory
  tempfiles,      \* the files of the temp directory: name -> length
  lock,           \* LOCK rows: <<repos_id, repos_relpath>> -> lock token
  adm_access,     \* pdh->adm_access: directory -> its entries cache or NULL
  wcroots,        \* the wcroot_t objects made so far, in order of creation
  disk,           \* the directories that hold an administrative database
  calls,          \* create_repos_id calls in flight: process -> its position
  stepped         \* the prepared statements stepped and not yet reset

db_vars == <<base_node, working_node, actual_node, pristine, repository>>
lock_vars == <<wc_lock, locked, peer>>
wq_vars == <<work_queue, sqlite_sequence>>
open_vars == <<format, engine>>
file_vars == <<pristine_files, tempfiles>>
root_vars == <<wcroots, disk>>
sql_vars == <<calls, stepped>>
aux_vars == <<lock, adm_access, root_vars, sql_vars>>

vars == <<base_node, working_node, actual_node, pristine, repository,
          dir_data, ret, nops, lock_vars, wq_vars, open_vars, file_vars, aux_vars>>

-----------------------------------------------------------------------------
(* Bounds of the model.                                                    *)

MaxOps == 2     \* mutating public calls per session

-----------------------------------------------------------------------------
(* Values.                                                                 *)

NULL == "<null>"                 \* a C NULL pointer / an SQL NULL text or blob
SqlNullPath == <<"<null>">>      \* SQL NULL in a relpath column
SqlNullInt == -9                 \* SQL NULL in an integer column
SVN_INVALID_REVNUM == -1
SVN_INVALID_FILESIZE == -1

Paths == {<<>>, <<"a">>, <<"a", "b">>}
NonRoot == Paths \ {<<>>}
DiskDirs == {<<>>, <<"a">>}      \* the directories on disk; wc.db is at <<>>

Revs == {1, 2}
Sizes == {1, 12}

SVN_WC__VERSION == 15            \* the schema version this code writes
SVN_WC__HAS_WORK_QUEUE == 13     \* the first version with a WORK_QUEUE table

(* presence_map: the words stored in the presence column and the status    *)
(* values they stand for.                                                  *)
presence_word(status) ==
  CASE status = "not_present" -> "not-present"
    [] status = "base_deleted" -> "base-deleted"
    [] OTHER -> status

word_as_status(word) == word

presence_status(word) ==
  CASE word = "not-present" -> "not_present"
    [] word = "base-deleted" -> "base_deleted"
    [] OTHER -> word

svn_relpath_dirname(p) == IF p = <<>> THEN <<>> ELSE SubSeq(p, 1, Len(p) - 1)
svn_relpath_basename(p) == IF p = <<>> THEN "" ELSE p[Len(p)]
svn_relpath_join(p, name) == IF name = "" THEN p ELSE Append(p, name)

(* svn_sqlite__bind_properties: a property hash is stored as its skel      *)
(* serialization; a NULL hash binds SQL NULL.                              *)
bind_properties(h) ==
  CASE h = "h1" -> "(h1)"
    [] h = "h2" -> "(h2)"
    [] h = "h3" -> "(h3)"
    [] OTHER -> NULL

(* A checksum value: "c1" and "c2" are SHA-1 digests, "m1" is an MD5       *)
(* digest.                                                                 *)
checksum_kind(c) == IF c = "m1" THEN "md5" ELSE "sha1"

(* svn_sqlite__bind_checksum: the canonical text form <kind>$<hex>.        *)
bind_checksum(c) ==
  CASE c = "c1" -> "sha1$c1"
    [] c = "c2" -> "sha1$c2"
    [] c = "m1" -> "md5$m1"
    [] OTHER -> NULL

column_checksum(text) ==
  CASE text = "sha1$c1" -> "c1"
    [] text = "sha1$c2" -> "c2"
    [] text = "md5$m1" -> "m1"
    [] OTHER -> NULL

(* svn_checksum_to_cstring: the hex digest alone, the name of the pristine *)
(* file.                                                                   *)
svn_checksum_to_cstring(c) ==
  CASE c = "c1" -> "hex-c1"
    [] c = "c2" -> "hex-c2"
    [] c = "m1" -> "hex-m1"
    [] OTHER -> NULL

column_int64(col) == col

get_translated_size(col) ==
  IF col = SqlNullInt THEN SVN_INVALID_FILESIZE ELSE col

(* The tree_conflict_data column: SQL NULL, or the skel text written by     *)
(* svn_wc__write_tree_conflicts for a map basename -> description, kept     *)
(* here as the set of its <<basename, description>> pairs.                  *)
SqlNullTc == <<"<null>">>
svn_wc__write_tree_conflicts(conflicts) == <<"skel", conflicts>>
svn_wc__read_tree_conflicts(data) == IF data = SqlNullTc THEN {} ELSE data[2]

apr_hash_get(hash, key) ==
  IF \E e \in hash : e[1] = key
    THEN (CHOOSE e \in hash : e[1] = key)[2]
    ELSE NULL

apr_hash_set(hash, key, val) ==
  {e \in hash : e[1] # key} \cup (IF val = NULL THEN {} ELSE {<<key, val>>})

-----------------------------------------------------------------------------
(* Tables.                                                                 *)

have(t, p) == p \in DOMAIN t
insert_or_replace(t, p, row) == (p :> row) @@ t
delete_row(t, p) == [q \in DOMAIN t \ {p} |-> t[q]]

DB == [base |-> base_node, working |-> working_node, actual |-> actual_node]

EmptyTable == [p \in {} |-> NULL]

-----------------------------------------------------------------------------
(* Path resolution: db->dir_data caches one handle per directory.  The     *)
(* database file exists only in the wcroot directory <<>>.                 *)

open_db(dir) == dir = <<>>

usable(dd, dir) == dir \in DOMAIN dd /\ dd[dir].wcroot

(* The directories whose handle parse_local_abspath creates or fills when  *)
(* it starts the upward search at dir.                                     *)
RECURSIVE scan_dirs(_, _)
scan_dirs(dd, dir) ==
  IF open_db(dir)
    THEN {dir}
    ELSE IF usable(dd, svn_relpath_dirname(dir))
      THEN {dir, svn_relpath_dirname(dir)}
      ELSE {dir} \cup scan_dirs(dd, svn_relpath_dirname(dir))

(* A resolution that leaves every handle it visits without a wcroot.       *)
handles_without_wcroot(dd, path) ==
  LET dir == IF path \in DiskDirs THEN path ELSE svn_relpath_dirname(path)
      found == scan_dirs(dd, dir)
  IN [d \in DOMAIN dd \cup found |->
        IF d \in found THEN [wcroot |-> FALSE] ELSE dd[d]]

parse_local_abspath(dd, path) ==
  LET dir == IF path \in DiskDirs THEN path ELSE svn_relpath_dirname(path)
      found == scan_dirs(dd, dir)
  IN IF usable(dd, dir)
       THEN dd
       ELSE [d \in DOMAIN dd \cup found |->
               IF d \in found THEN [wcroot |-> TRUE] ELSE dd[d]]

(* A handle created on request knows no wcroot yet.                        *)
get_or_create_pdh(dd, dir) ==
  IF dir \in DOMAIN dd THEN dd ELSE (dir :> [wcroot |-> FALSE]) @@ dd

NoHandles == [d \in {} |-> [wcroot |-> TRUE]]

(* The directory whose handle parse_local_abspath hands back for path.     *)
pdh_of(path) ==
  IF path \in DiskDirs THEN path ELSE svn_relpath_dirname(path)

(* flush_entries: svn_wc__adm_access_set_entries(pdh->adm_access, NULL)    *)
(* when the handle has an access baton.                                    *)
flush_entries(access, dir) ==
  [d \in DOMAIN access |-> IF d = dir THEN NULL ELSE access[d]]

(* svn_wc__upgrade_sdb applies the migration scripts for fmt+1 .. current  *)
(* and leaves the database at the current version.                         *)
svn_wc__upgrade_sdb(fmt) == SVN_WC__VERSION

(* A look at the work queue that never finds anything.                     *)
no_look_for_work(wq) == "ok"

(* verify_no_work: STMT_LOOK_FOR_WORK finds a row when any item is queued. *)
verify_no_work(wq) ==
  IF DOMAIN wq # {} THEN "wc_cleanup_required" ELSE "ok"

(* A create_wcroot that takes any format as it is.                         *)
create_wcroot_any_format(fmt, auto_upgrade, enforce_empty_wq, wq) ==
  [err |-> "ok", format |-> fmt, wcroot |-> TRUE]

(* create_wcroot with the format fmt found on disk: the format checks come *)
(* first, then the upgrade, then the look at the work queue; format is the *)
(* version the database is left at, wcroot whether *wcroot was assigned.   *)
create_wcroot(fmt, auto_upgrade, enforce_empty_wq, wq) ==
  IF fmt < 4
    THEN [err |-> "wc_unsupported_format", format |-> fmt, wcroot |-> FALSE]
  ELSE IF fmt > SVN_WC__VERSION
    THEN [err |-> "wc_unsupported_format", format |-> fmt, wcroot |-> FALSE]
  ELSE
    LET upgraded == IF fmt < SVN_WC__VERSION /\ auto_upgrade
                      THEN svn_wc__upgrade_sdb(fmt) ELSE fmt
        work == IF upgraded >= SVN_WC__HAS_WORK_QUEUE /\ enforce_empty_wq
                  THEN verify_no_work(wq) ELSE "ok"
    IN [err |-> work, format |-> upgraded, wcroot |-> work = "ok"]

(* parse_local_abspath reaches create_wcroot only when neither the         *)
(* directory asked for nor the wcroot directory has a handle with a        *)
(* wcroot.                                                                 *)
opens_wcroot(dd, path) ==
  LET dir == IF path \in DiskDirs THEN path ELSE svn_relpath_dirname(path)
  IN ~usable(dd, dir) /\ ~usable(dd, <<>>)

(* parse_local_abspath as the engine eng runs it on a database of format   *)
(* fmt: a failing create_wcroot returns before any handle is stashed.      *)
resolve_path(dd, path, fmt, eng, wq) ==
  IF ~opens_wcroot(dd, path)
    THEN [err |-> "ok", dir_data |-> parse_local_abspath(dd, path),
          format |-> fmt]
    ELSE LET w == create_wcroot(fmt, eng.auto_upgrade, eng.enforce_empty_wq,
                                wq)
         IN IF w.wcroot
              THEN [err |-> "ok", dir_data |-> parse_local_abspath(dd, path),
                    format |-> w.format]
              ELSE [err |-> w.err, dir_data |-> dd, format |-> w.format]

(* get_statement_for_path: resolution, then VERIFY_USABLE_PDH, which       *)
(* accepts only a wcroot of the current format.                            *)
get_statement_for_path(dd, path, fmt, eng, wq) ==
  LET r == resolve_path(dd, path, fmt, eng, wq)
  IN IF r.err = "ok" /\ r.format # SVN_WC__VERSION
       THEN [r EXCEPT !.err = "assertion_fail"]
       ELSE r

-----------------------------------------------------------------------------
(* REPOSITORY table.                                                       *)

(* A row is id -> [root, uuid].  STMT_SELECT_REPOSITORY looks a row up by  *)
(* its root alone; STMT_INSERT_REPOSITORY binds root and uuid.             *)
repos_of(repos, url) == {id \in DOMAIN repos : repos[id].root = url}

(* A create_repos_id that hands out the id of a new repository without    *)
(* inserting its row.                                                      *)
create_repos_id_unrecorded(repos, repos_root_url, repos_uuid) ==
  IF repos_of(repos, repos_root_url) # {}
    THEN [repos_id |-> CHOOSE id \in repos_of(repos, repos_root_url) : TRUE,
          repository |-> repos]
    ELSE [repos_id |-> Cardinality(DOMAIN repos) + 1, repository |-> repos]

create_repos_id(repos, repos_root_url, repos_uuid) ==
  IF repos_of(repos, repos_root_url) # {}
    THEN [repos_id |-> CHOOSE id \in repos_of(repos, repos_root_url) : TRUE,
          repository |-> repos]
    ELSE [repos_id |-> Cardinality(DOMAIN repos) + 1,
          repository |->
            ((Cardinality(DOMAIN repos) + 1)
               :> [root |-> repos_root_url, uuid |-> repos_uuid]) @@ repos]

(* STMT_SELECT_REPOSITORY_BY_ID *)
fetch_repos_info(repos, repos_id) ==
  IF repos_id \in DOMAIN repos
    THEN [err |-> "ok", repos_root_url |-> repos[repos_id].root,
          repos_uuid |-> repos[repos_id].uuid]
    ELSE [err |-> "wc_corrupt", repos_root_url |-> NULL, repos_uuid |-> NULL]

-----------------------------------------------------------------------------
(* BASE_NODE writers.                                                      *)

(* STMT_INSERT_BASE_NODE_INCOMPLETE, bound "issi"; the statement's text is *)
(* in wc-queries.sql: insert or ignore into base_node (wc_id,              *)
(* local_relpath, parent_relpath, presence, kind, revnum).                 *)
incomplete_row(parent, revision) ==
  [repos_id |-> SqlNullInt, repos_relpath |-> SqlNullPath,
   parent_relpath |-> parent, presence |-> presence_word("incomplete"),
   kind |-> "unknown",
   revnum |-> revision, properties |-> NULL, changed_rev |-> SqlNullInt,
   changed_date |-> SqlNullInt, changed_author |-> NULL, depth |-> NULL,
   checksum |-> NULL, translated_size |-> SqlNullInt,
   symlink_target |-> NULL, dav_cache |-> NULL]

(* A placeholder overwriting the row a child already has.                  *)
insert_replacing(t, p, row) == (p :> row) @@ t

(* INSERT OR IGNORE: a key that has a row keeps it.                        *)
insert_or_ignore(t, p, row) == IF p \in DOMAIN t THEN t ELSE (p :> row) @@ t

(* The loop over the children: one insert per name, all of the same row.   *)
insert_each(t, keys, row) ==
  [p \in DOMAIN t \cup keys |-> insert_or_ignore(t, p, row)[p]]

insert_base_node(db, pibb) ==
  LET row ==
        [repos_id |-> pibb.repos_id,
         repos_relpath |-> pibb.repos_relpath,
         parent_relpath |->
           IF pibb.local_relpath # <<>>
             THEN svn_relpath_dirname(pibb.local_relpath)
             ELSE SqlNullPath,
         presence |-> presence_word(pibb.status),
         kind |-> pibb.kind,
         revnum |-> pibb.revision,
         properties |-> bind_properties(pibb.props),
         changed_rev |->
           IF pibb.changed_rev >= 0 THEN pibb.changed_rev ELSE SqlNullInt,
         changed_date |->
           IF pibb.changed_date # 0 THEN pibb.changed_date ELSE SqlNullInt,
         changed_author |-> pibb.changed_author,
         depth |-> IF pibb.kind = "dir" THEN pibb.depth ELSE NULL,
         checksum |->
           IF pibb.kind = "file" THEN bind_checksum(pibb.checksum) ELSE NULL,
         translated_size |->
           IF pibb.kind = "file"
              /\ pibb.translated_size # SVN_INVALID_FILESIZE
             THEN pibb.translated_size
             ELSE SqlNullInt,
         symlink_target |->
           IF pibb.kind = "symlink" THEN pibb.target ELSE NULL,
         dav_cache |-> NULL]
      names == IF pibb.kind = "dir" THEN pibb.children ELSE {}
      kids == {svn_relpath_join(pibb.local_relpath, n) : n \in names}
      base1 == insert_or_replace(db.base, pibb.local_relpath, row)
  IN [db EXCEPT !.base =
        insert_each(base1, kids,
                    incomplete_row(pibb.local_relpath, pibb.revision))]

(* The fields every caller of insert_base_node fills in.                   *)
ibb(relpath, repos_id, repos_relpath, status, kind, revision) ==
  [local_relpath |-> relpath, repos_id |-> repos_id,
   repos_relpath |-> repos_relpath, status |-> status, kind |-> kind,
   revision |-> revision, props |-> NULL,
   changed_rev |-> SVN_INVALID_REVNUM, changed_date |-> 0,
   changed_author |-> NULL, children |-> {}, depth |-> "infinity",
   checksum |-> NULL, translated_size |-> SVN_INVALID_FILESIZE,
   target |-> NULL]

svn_wc__db_init(repos_id, repos_relpath, initial_rev) ==
  insert_base_node(
    [base |-> EmptyTable, working |-> EmptyTable, actual |-> EmptyTable],
    ibb(<<>>, repos_id, repos_relpath,
        IF initial_rev > 0 THEN "incomplete" ELSE "normal", "dir",
        initial_rev))

(* svn_sqlite__with_transaction: the callback's writes are committed when  *)
(* it returns no error and rolled back otherwise.                          *)
svn_sqlite__with_transaction(db, err, result) ==
  IF err = "ok" THEN result ELSE db

base_add_directory(db, relpath, repos_id, repos_relpath, revision, props, children) ==
  svn_sqlite__with_transaction(db, "ok",
    insert_base_node(db,
      [ibb(relpath, repos_id, repos_relpath, "normal", "dir", revision)
         EXCEPT !.props = props, !.changed_rev = revision,
                !.changed_date = 1, !.changed_author = "bob",
                !.children = children]))

base_add_file(db, relpath, repos_id, repos_relpath, revision, props, checksum, translated_size) ==
  insert_base_node(db,
    [ibb(relpath, repos_id, repos_relpath, "normal", "file", revision)
       EXCEPT !.props = props, !.changed_rev = revision,
              !.changed_date = 1, !.changed_author = "bob",
              !.checksum = checksum, !.translated_size = translated_size])

base_add_symlink(db, relpath, repos_id, repos_relpath, revision, props, target) ==
  insert_base_node(db,
    [ibb(relpath, repos_id, repos_relpath, "normal", "symlink", revision)
       EXCEPT !.props = props, !.changed_rev = revision,
              !.changed_date = 1, !.changed_author = "bob",
              !.target = target])

base_add_absent_node(db, relpath, repos_id, repos_relpath, revision, kind, status) ==
  insert_base_node(db,
    ibb(relpath, repos_id, repos_relpath, status, kind, revision))

(* STMT_DELETE_BASE_NODE only: the other two tables are not touched.       *)
base_remove(db, relpath) ==
  [db EXCEPT !.base = delete_row(db.base, relpath)]

-----------------------------------------------------------------------------
(* ACTUAL_NODE writers.                                                    *)

actual_row(parent) ==
  [parent_relpath |-> parent, prop_reject |-> NULL, changelist |-> NULL,
   conflict_old |-> NULL, conflict_new |-> NULL, conflict_working |-> NULL,
   tree_conflict_data |-> SqlNullTc, properties |-> NULL]

set_props_txn(db, relpath, props) ==
  IF have(db.actual, relpath)
    THEN [db EXCEPT !.actual[relpath].properties = bind_properties(props)]
    ELSE [db EXCEPT !.actual =
            insert_or_replace(db.actual, relpath,
              [actual_row(IF relpath # <<>>
                            THEN svn_relpath_dirname(relpath)
                            ELSE SqlNullPath)
                 EXCEPT !.properties = bind_properties(props)])]

op_set_props(db, relpath, props) ==
  svn_sqlite__with_transaction(db, "ok", set_props_txn(db, relpath, props))

set_changelist_txn(db, relpath, changelist) ==
  IF ~have(db.actual, relpath)
    THEN IF changelist = NULL
           THEN db
           ELSE [db EXCEPT !.actual =
                   insert_or_replace(db.actual, relpath,
                     [actual_row(IF relpath # <<>>
                                   THEN svn_relpath_dirname(relpath)
                                   ELSE SqlNullPath)
                        EXCEPT !.changelist = changelist])]
    ELSE LET existing_changelist == db.actual[relpath].prop_reject
         IN IF existing_changelist # NULL /\ changelist # NULL
               /\ existing_changelist = changelist
              THEN db
              ELSE [db EXCEPT !.actual[relpath].changelist = changelist]

op_set_changelist(db, relpath, changelist) ==
  svn_sqlite__with_transaction(db, "ok",
                               set_changelist_txn(db, relpath, changelist))

(* A rewrite that keeps only the entry being set.                          *)
set_tc_alone(db, local_relpath, basename, tree_conflict) ==
  [db EXCEPT !.actual =
     insert_or_replace(db.actual, local_relpath,
       [(IF have(db.actual, local_relpath)
           THEN db.actual[local_relpath] ELSE actual_row(SqlNullPath))
          EXCEPT !.tree_conflict_data =
            svn_wc__write_tree_conflicts(
              apr_hash_set({}, basename, tree_conflict))])]

(* local_relpath is the relpath of the PARENT of the conflict victim.      *)
set_tc_txn(db, local_relpath, basename, tree_conflict) ==
  LET have_row == have(db.actual, local_relpath)
      tree_conflict_data ==
        IF have_row THEN db.actual[local_relpath].tree_conflict_data
                    ELSE SqlNullTc
      conflicts ==
        apr_hash_set(svn_wc__read_tree_conflicts(tree_conflict_data),
                     basename, tree_conflict)
  IN IF conflicts = {} /\ ~have_row
       THEN db
       ELSE IF have_row
         THEN [db EXCEPT !.actual[local_relpath].tree_conflict_data =
                 svn_wc__write_tree_conflicts(conflicts)]
         ELSE [db EXCEPT !.actual =
                 insert_or_replace(db.actual, local_relpath,
                   [actual_row(SqlNullPath)
                      EXCEPT !.tree_conflict_data =
                        svn_wc__write_tree_conflicts(conflicts)])]

op_set_tree_conflict(db, local_relpath, tree_conflict) ==
  svn_sqlite__with_transaction(db, "ok",
    set_tc_txn(db, svn_relpath_dirname(local_relpath),
               svn_relpath_basename(local_relpath), tree_conflict))

(* STMT_CLEAR_TEXT_CONFLICT and STMT_CLEAR_PROPS_CONFLICT.                 *)
clear_text_conflict(db, relpath) ==
  IF have(db.actual, relpath)
    THEN [db EXCEPT !.actual[relpath].conflict_old = NULL,
                    !.actual[relpath].conflict_new = NULL,
                    !.actual[relpath].conflict_working = NULL]
    ELSE db

(* A clearing of the property conflict that clears the text conflict.     *)
props_cleared_as_text(db, relpath) == clear_text_conflict(db, relpath)

clear_props_conflict(db, relpath) ==
  IF have(db.actual, relpath)
    THEN [db EXCEPT !.actual[relpath].prop_reject = NULL]
    ELSE db

no_tree_conflict(db, local_relpath) == NULL

op_read_tree_conflict(db, local_relpath) ==
  LET parent == svn_relpath_dirname(local_relpath)
  IN IF local_relpath = <<>> \/ ~have(db.actual, parent)
       THEN NULL
       ELSE apr_hash_get(
              svn_wc__read_tree_conflicts(
                db.actual[parent].tree_conflict_data),
              svn_relpath_basename(local_relpath))

-----------------------------------------------------------------------------
(* Commit.                                                                 *)

no_repos(err) ==
  [err |-> err, repos_id |-> SqlNullInt, repos_relpath |-> SqlNullPath]

RECURSIVE scan_upwards(_, _, _, _)
scan_upwards(db, local_relpath, current_relpath, relpath_suffix) ==
  IF ~have(db.base, current_relpath)
    THEN IF relpath_suffix # <<>> \/ local_relpath = <<>>
           THEN no_repos("wc_corrupt")
           ELSE no_repos("wc_path_not_found")
    ELSE IF db.base[current_relpath].repos_id # SqlNullInt
      THEN [err |-> "ok",
            repos_id |-> db.base[current_relpath].repos_id,
            repos_relpath |->
              db.base[current_relpath].repos_relpath \o relpath_suffix]
      ELSE IF current_relpath = <<>>
        THEN no_repos("wc_corrupt")
        ELSE scan_upwards(db, local_relpath,
                          svn_relpath_dirname(current_relpath),
                          svn_relpath_join(relpath_suffix,
                            svn_relpath_basename(current_relpath)))

scan_upwards_for_repos(db, local_relpath) ==
  scan_upwards(db, local_relpath, local_relpath, <<>>)

determine_repos_info(db, local_relpath, name) ==
  IF have(db.base, local_relpath)
     /\ db.base[local_relpath].repos_id # SqlNullInt
    THEN [err |-> "ok", repos_id |-> db.base[local_relpath].repos_id,
          repos_relpath |-> db.base[local_relpath].repos_relpath]
    ELSE IF local_relpath = <<>>
      THEN no_repos("wc_not_working_copy")
      ELSE LET up == scan_upwards_for_repos(db, <<>>)
           IN IF up.err # "ok"
                THEN up
                ELSE [up EXCEPT !.repos_relpath =
                        svn_relpath_join(up.repos_relpath, name)]

base_prop_blob(db, p) ==
  IF have(db.base, p) THEN db.base[p].properties ELSE NULL

(* ACTUAL overrides WORKING overrides BASE; the blob is passed through.    *)
commit_prop_blob(db, p) ==
  LET blob_act == IF have(db.actual, p) THEN db.actual[p].properties
                                        ELSE NULL
      blob_work == IF have(db.working, p) /\ blob_act = NULL
                     THEN db.working[p].properties ELSE blob_act
  IN IF have(db.base, p) /\ blob_work = NULL
       THEN db.base[p].properties ELSE blob_work

incomplete_presence == "incomplete"

new_presence == "normal"

toss_actual(db, cb) == delete_row(db.actual, cb.local_relpath)

(* STMT_RESET_ACTUAL_WITH_CHANGELIST, bound "isss", or                     *)
(* STMT_DELETE_ACTUAL_NODE.                                                *)
commit_actual(db, cb) ==
  LET p == cb.local_relpath
      changelist == IF cb.keep_changelist /\ have(db.actual, p)
                      THEN db.actual[p].changelist ELSE NULL
  IN IF ~have(db.actual, p)
       THEN db.actual
       ELSE IF cb.keep_changelist /\ changelist # NULL
         THEN insert_or_replace(db.actual, p,
                [actual_row(svn_relpath_dirname(p))
                   EXCEPT !.changelist = changelist])
         ELSE delete_row(db.actual, p)

commit_node(db, cb) ==
  LET p == cb.local_relpath
      have_base == have(db.base, p)
      have_work == have(db.working, p)
      new_kind == IF have_work THEN db.working[p].kind
                  ELSE IF have_base THEN db.base[p].kind ELSE NULL
      new_depth_str ==
        IF new_kind = "dir"
          THEN IF have_work THEN db.working[p].depth ELSE db.base[p].depth
          ELSE NULL
      parent_relpath ==
        IF p = <<>> THEN SqlNullPath ELSE svn_relpath_dirname(p)
      new_base ==
        [repos_id |-> cb.repos_id, repos_relpath |-> cb.repos_relpath,
         parent_relpath |-> parent_relpath,
         presence |-> presence_word(new_presence),
         kind |-> new_kind, revnum |-> cb.new_revision,
         properties |-> commit_prop_blob(db, p),
         changed_rev |-> cb.new_revision,
         changed_date |->
           IF cb.new_date > 0 THEN cb.new_date ELSE SqlNullInt,
         changed_author |-> cb.new_author, depth |-> new_depth_str,
         checksum |-> bind_checksum(cb.new_checksum),
         translated_size |-> SqlNullInt, symlink_target |-> NULL,
         dav_cache |-> bind_properties(cb.new_dav_cache)]
  IN IF ~have_base /\ ~have_work
       THEN [err |-> "malfunction", db |-> db]
       ELSE IF new_kind = "dir" /\ p # <<>>
         THEN [err |-> "assertion", db |-> db]
         ELSE [err |-> "ok",
               db |-> [base |-> insert_or_replace(db.base, p, new_base),
                       working |-> delete_row(db.working, p),
                       actual |-> commit_actual(db, cb)]]

global_commit(db, local_relpath, new_revision, new_date, new_author, new_checksum, keep_changelist) ==
  LET info == determine_repos_info(db, local_relpath,
                                   svn_relpath_basename(local_relpath))
      txn == commit_node(db,
               [local_relpath |-> local_relpath,
                new_revision |-> new_revision, new_date |-> new_date,
                new_author |-> new_author, new_checksum |-> new_checksum,
                new_dav_cache |-> NULL, keep_changelist |-> keep_changelist,
                repos_id |-> info.repos_id,
                repos_relpath |-> info.repos_relpath])
  IN IF info.err # "ok"
       THEN [err |-> info.err, db |-> db]
       ELSE [err |-> txn.err,
             db |-> svn_sqlite__with_transaction(db, txn.err, txn.db)]

-----------------------------------------------------------------------------
(* Calls that run their statements outside any transaction: each statement *)
(* commits on its own.  done is the number of statements that completed    *)
(* before the call returned or the process stopped.                        *)

temp_op_remove_entry(db, current_relpath, done) ==
  [base |-> IF done >= 1 THEN delete_row(db.base, current_relpath)
                         ELSE db.base,
   working |-> IF done >= 2 THEN delete_row(db.working, current_relpath)
                            ELSE db.working,
   actual |-> IF done >= 3 THEN delete_row(db.actual, current_relpath)
                           ELSE db.actual]

op_mark_resolved(db, local_relpath, resolved_text, resolved_props, done) ==
  LET db1 == IF resolved_text /\ done >= 1
               THEN clear_text_conflict(db, local_relpath) ELSE db
      need == IF resolved_text THEN 2 ELSE 1
  IN IF resolved_props /\ done >= need
       THEN clear_props_conflict(db1, local_relpath) ELSE db1

pristine_install(pr, checksum, size) ==
  IF bind_checksum(checksum) \in DOMAIN pr
    THEN pr
    ELSE (bind_checksum(checksum) :> size) @@ pr

-----------------------------------------------------------------------------
(* Readers.                                                                *)

no_info(err) ==
  [err |-> err, status |-> NULL, kind |-> NULL,
   revision |-> SVN_INVALID_REVNUM, changed_author |-> NULL,
   checksum |-> NULL, translated_size |-> SVN_INVALID_FILESIZE,
   changelist |-> NULL, conflicted |-> FALSE]

base_get_info(db, local_relpath) ==
  IF have(db.base, local_relpath)
    THEN LET row == db.base[local_relpath]
             node_kind == row.kind
         IN [err |-> "ok",
             status |->
               IF node_kind = "subdir"
                  /\ presence_status(row.presence) = "normal"
                 THEN "obstructed"
                 ELSE presence_status(row.presence),
             kind |-> IF node_kind = "subdir" THEN "dir" ELSE node_kind,
             revision |-> row.revnum,
             changed_author |-> row.changed_author,
             checksum |->
               IF node_kind # "file" THEN NULL
                                     ELSE column_checksum(row.checksum),
             translated_size |-> get_translated_size(row.translated_size),
             changelist |-> NULL, conflicted |-> FALSE]
    ELSE no_info("wc_path_not_found")

(* read_info up to the reset of its three statements.                      *)
read_info_rows(db, local_relpath) ==
  LET p == local_relpath
      have_base == have(db.base, p)
      have_work == have(db.working, p)
      have_act == have(db.actual, p)
      node_kind == IF have_work THEN db.working[p].kind ELSE db.base[p].kind
      base_status == presence_status(db.base[p].presence)
      work_status == presence_status(db.working[p].presence)
      status0 ==
        IF have_base
          THEN IF node_kind = "subdir" /\ base_status = "normal"
                 THEN "obstructed" ELSE base_status
          ELSE NULL
      status ==
        IF ~have_work THEN status0
        ELSE IF work_status = "incomplete" THEN "incomplete"
        ELSE IF work_status \in {"not_present", "base_deleted"}
          THEN IF node_kind = "subdir" THEN "obstructed_delete"
                                       ELSE "deleted"
          ELSE IF node_kind = "subdir" THEN "obstructed_add" ELSE "added"
      conflicted0 ==
        have_act
        /\ (db.actual[p].conflict_old # NULL
            \/ db.actual[p].conflict_new # NULL
            \/ db.actual[p].conflict_working # NULL
            \/ db.actual[p].prop_reject # NULL)
      row == IF have_work THEN db.working[p] ELSE db.base[p]
  IN IF have_base \/ have_work
       THEN IF have_base /\ have_work
               /\ base_status \in {"absent", "excluded"}
              THEN no_info("assertion")
            ELSE IF have_work
                    /\ work_status \notin {"normal", "not_present",
                                           "base_deleted", "incomplete"}
              THEN no_info("assertion")
            ELSE [err |-> "ok",
                  status |-> status,
                  kind |-> IF node_kind = "subdir" THEN "dir" ELSE node_kind,
                  revision |-> IF have_work THEN SVN_INVALID_REVNUM
                                            ELSE db.base[p].revnum,
                  changed_author |-> row.changed_author,
                  checksum |->
                    IF node_kind # "file" THEN NULL
                                          ELSE column_checksum(row.checksum),
                  translated_size |->
                    get_translated_size(row.translated_size),
                  changelist |->
                    IF have_act THEN db.actual[p].changelist ELSE NULL,
                  conflicted |-> conflicted0]
       ELSE IF have_act
         THEN no_info("wc_corrupt")
         ELSE no_info("wc_path_not_found")

(* ... and the tree-conflict lookup through the parent that follows.       *)
read_info(db, local_relpath) ==
  LET r == read_info_rows(db, local_relpath)
  IN IF r.err = "ok" /\ ~r.conflicted
       THEN [r EXCEPT !.conflicted =
               op_read_tree_conflict(db, local_relpath) # NULL]
       ELSE r

(* The handles the two resolutions of read_info leave in dir_data.         *)
read_info_handles(dd, db, local_relpath) ==
  LET r == read_info_rows(db, local_relpath)
      dd1 == parse_local_abspath(dd, local_relpath)
  IN IF r.err = "ok" /\ ~r.conflicted /\ local_relpath # <<>>
       THEN parse_local_abspath(dd1, svn_relpath_dirname(local_relpath))
       ELSE dd1

(* svn_sqlite__column_properties: the hash a stored skel parses to; a NULL  *)
(* column gives a NULL hash.                                               *)
column_properties(blob) ==
  CASE blob = "(h1)" -> "h1"
    [] blob = "(h2)" -> "h2"
    [] blob = "(h3)" -> "h3"
    [] OTHER -> NULL

base_get_props(db, local_relpath) ==
  IF have(db.base, local_relpath)
    THEN [err |-> "ok",
          props |-> column_properties(db.base[local_relpath].properties)]
    ELSE [err |-> "wc_path_not_found", props |-> NULL]

read_pristine_props(db, local_relpath) ==
  LET have_row == have(db.working, local_relpath)
      have_value == have_row /\ db.working[local_relpath].properties # NULL
      b == base_get_props(db, local_relpath)
  IN IF have_value
       THEN [err |-> "ok",
             props |->
               column_properties(db.working[local_relpath].properties)]
       ELSE IF b.err # "ok" /\ (~have_row \/ b.err # "wc_path_not_found")
         THEN b
         ELSE [err |-> "ok", props |-> b.props]

(* A read_props that never looks at the ACTUAL row.                        *)
props_without_actual(db, local_relpath) ==
  read_pristine_props(db, local_relpath)

read_props(db, local_relpath) ==
  IF have(db.actual, local_relpath)
     /\ db.actual[local_relpath].properties # NULL
    THEN [err |-> "ok",
          props |-> column_properties(db.actual[local_relpath].properties)]
    ELSE read_pristine_props(db, local_relpath)

-----------------------------------------------------------------------------
(* Initial working copies.  svn_wc__db_init creates the root row; the rows *)
(* of one further node were written by an earlier session: a BASE file, a  *)
(* WORKING row of a schedule operation, an ACTUAL row of local changes.    *)

RootUrl == "http://x/"
RootUuid == "u1"
FirstRepository == (1 :> [root |-> RootUrl, uuid |-> RootUuid])
repos_path(p) == <<"t">> \o p

working_row(parent, presence, kind, props) ==
  [parent_relpath |-> parent, presence |-> presence, kind |-> kind,
   checksum |-> NULL, translated_size |-> SqlNullInt,
   changed_author |-> NULL, depth |-> IF kind = "dir" THEN "infinity" ELSE NULL,
   properties |-> props]

InitWorking(p) ==
  {working_row(svn_relpath_dirname(p), "normal", "file", "(h2)"),
   working_row(svn_relpath_dirname(p), "base-deleted", "file", NULL),
   working_row(svn_relpath_dirname(p), "normal", "dir", NULL)}

InitActual(p) ==
  {[actual_row(svn_relpath_dirname(p)) EXCEPT !.properties = "(h3)"],
   [actual_row(svn_relpath_dirname(p))
      EXCEPT !.changelist = "cl1", !.prop_reject = "prej",
             !.conflict_old = "old", !.conflict_new = "new",
             !.conflict_working = "wrk"],
   [actual_row(svn_relpath_dirname(p))
      EXCEPT !.changelist = "cl1", !.properties = "(h3)",
             !.tree_conflict_data =
               svn_wc__write_tree_conflicts({<<"b", "d1">>, <<"c", "d0">>})]}

table_of(p, rows) == [q \in {p} |-> CHOOSE r \in rows : TRUE]

InitDbs ==
  LET root == svn_wc__db_init(1, repos_path(<<>>), 0)
  IN {root} \cup
     UNION {
       {[base |-> b, working |-> w, actual |-> a] :
          b \in {root.base,
                 base_add_file(root, p, 1, repos_path(p), 1, "h1", "c1", 1)
                   .base},
          w \in {EmptyTable} \cup {table_of(p, {r}) : r \in InitWorking(p)},
          a \in {EmptyTable} \cup {table_of(p, {r}) : r \in InitActual(p)}}
       : p \in NonRoot}

layered(db) ==
  \A p \in DOMAIN db.actual : have(db.base, p) \/ have(db.working, p)

(* A base-deleted WORKING row shadows a BASE row.                          *)
shadowing(db) ==
  \A p \in DOMAIN db.working :
    db.working[p].presence = "base-deleted" => have(db.base, p)

(* Nothing beside the node tables: no repository lock and no access baton; *)
(* the wcroot objects and the databases on disk are not followed.          *)
QuietAux ==
  /\ lock = EmptyTable
  /\ adm_access = EmptyTable
  /\ wcroots = <<>>
  /\ disk = {}
  /\ calls = <<>>
  /\ stepped = {}

(* A working copy of the current format with no lock held, no work queued, *)
(* the file of the one pristine row in place and no other engine at work.  *)
QuietSession ==
  /\ wc_lock = {}
  /\ locked = {}
  /\ peer = [dir_data |-> NoHandles, locked |-> {}]
  /\ work_queue = EmptyTable
  /\ sqlite_sequence = 0
  /\ format = SVN_WC__VERSION
  /\ engine = [auto_upgrade |-> TRUE, enforce_empty_wq |-> TRUE]
  /\ pristine_files = {svn_checksum_to_cstring("c1")}
  /\ tempfiles = EmptyTable
  /\ QuietAux

Init ==
  /\ \E db \in {d \in InitDbs : layered(d) /\ shadowing(d)} :
       /\ base_node = db.base
       /\ working_node = db.working
       /\ actual_node = db.actual
  /\ pristine = ("sha1$c1" :> 1)
  /\ repository = FirstRepository
  /\ dir_data = [d \in {} |-> [wcroot |-> TRUE]]
  /\ ret = [op |-> "open", path |-> <<>>, err |-> "ok"]
  /\ nops = 0
  /\ QuietSession

-----------------------------------------------------------------------------
(* Public calls.  Every mutating call resolves its path first             *)
(* (parse_local_abspath), then runs its statements.                        *)

Apply(db) ==
  /\ base_node' = db.base
  /\ working_node' = db.working
  /\ actual_node' = db.actual

Returned(op, path, err, args) ==
  ret' = [op |-> op, path |-> path, err |-> err, args |-> args,
          pre |-> DB, pre_dd |-> dir_data]

Start ==
  /\ nops < MaxOps
  /\ nops' = nops + 1

BaseAddDirectory(P, rev, children) ==
  LET r == create_repos_id(repository, RootUrl, RootUuid)
  IN /\ Start
     /\ dir_data' = parse_local_abspath(dir_data, P)
     /\ repository' = r.repository
     /\ Apply(base_add_directory(DB, P, r.repos_id, repos_path(P), rev,
                                 "h1", children))
     /\ Returned("base_add_directory", P, "ok",
                 [revision |-> rev, children |-> children])
     /\ UNCHANGED pristine
     /\ UNCHANGED <<lock_vars, wq_vars, open_vars, file_vars, aux_vars>>

BaseAddFile(P, rev, checksum, size) ==
  LET r == create_repos_id(repository, RootUrl, RootUuid)
  IN /\ Start
     /\ dir_data' = parse_local_abspath(dir_data, P)
     /\ repository' = r.repository
     /\ Apply(base_add_file(DB, P, r.repos_id, repos_path(P), rev, "h1",
                            checksum, size))
     /\ Returned("base_add_file", P, "ok",
                 [revision |-> rev, checksum |-> checksum, size |-> size])
     /\ UNCHANGED pristine
     /\ UNCHANGED <<lock_vars, wq_vars, open_vars, file_vars, aux_vars>>

BaseAddSymlink(P, rev) ==
  LET r == create_repos_id(repository, RootUrl, RootUuid)
  IN /\ Start
     /\ dir_data' = parse_local_abspath(dir_data, P)
     /\ repository' = r.repository
     /\ Apply(base_add_symlink(DB, P, r.repos_id, repos_path(P), rev, "h1",
                               "target"))
     /\ Returned("base_add_symlink", P, "ok", [revision |-> rev])
     /\ UNCHANGED pristine
     /\ UNCHANGED <<lock_vars, wq_vars, open_vars, file_vars, aux_vars>>

BaseAddAbsentNode(P, rev, kind, status) ==
  LET r == create_repos_id(repository, RootUrl, RootUuid)
  IN /\ Start
     /\ dir_data' = parse_local_abspath(dir_data, P)
     /\ repository' = r.repository
     /\ Apply(base_add_absent_node(DB, P, r.repos_id, repos_path(P), rev,
                                   kind, status))
     /\ Returned("base_add_absent_node", P, "ok",
                 [revision |-> rev, kind |-> kind, status |-> status])
     /\ UNCHANGED pristine
     /\ UNCHANGED <<lock_vars, wq_vars, open_vars, file_vars, aux_vars>>

BaseRemove(P) ==
  /\ Start
  /\ dir_data' = parse_local_abspath(dir_data, P)
  /\ Apply(base_remove(DB, P))
  /\ Returned("base_remove", P, "ok", [none |-> TRUE])
  /\ UNCHANGED <<pristine, repository>>
  /\ adm_access' = flush_entries(adm_access, pdh_of(P))
  /\ UNCHANGED <<lock_vars, wq_vars, open_vars, file_vars, lock, root_vars, sql_vars>>

OpSetProps(P, props) ==
  /\ Start
  /\ dir_data' = parse_local_abspath(dir_data, P)
  /\ Apply(op_set_props(DB, P, props))
  /\ Returned("op_set_props", P, "ok", [props |-> props])
  /\ UNCHANGED <<pristine, repository>>
  /\ UNCHANGED <<lock_vars, wq_vars, open_vars, file_vars, aux_vars>>

OpSetChangelist(P, changelist) ==
  /\ Start
  /\ dir_data' = parse_local_abspath(dir_data, P)
  /\ Apply(op_set_changelist(DB, P, changelist))
  /\ Returned("op_set_changelist", P, "ok", [changelist |-> changelist])
  /\ UNCHANGED <<pristine, repository>>
  /\ adm_access' = flush_entries(adm_access, pdh_of(P))
  /\ UNCHANGED <<lock_vars, wq_vars, open_vars, file_vars, lock, root_vars, sql_vars>>

(* The parent directory is what gets resolved; the parent of the wcroot    *)
(* lies outside every working copy.                                        *)
OpSetTreeConflict(P, tree_conflict) ==
  /\ Start
  /\ IF P = <<>>
       THEN /\ UNCHANGED <<base_node, working_node, actual_node, dir_data>>
            /\ Returned("op_set_tree_conflict", P, "wc_not_working_copy",
                        [tree_conflict |-> tree_conflict])
       ELSE /\ dir_data' =
                 parse_local_abspath(dir_data, svn_relpath_dirname(P))
            /\ Apply(op_set_tree_conflict(DB, P, tree_conflict))
            /\ Returned("op_set_tree_conflict", P, "ok",
                        [tree_conflict |-> tree_conflict])
  /\ UNCHANGED <<pristine, repository>>
  /\ adm_access' = IF P = <<>>
                     THEN adm_access
                     ELSE flush_entries(adm_access,
                                        pdh_of(svn_relpath_dirname(P)))
  /\ UNCHANGED <<lock_vars, wq_vars, open_vars, file_vars, lock, root_vars, sql_vars>>

statements(resolved_text, resolved_props) ==
  (IF resolved_text THEN 1 ELSE 0) + (IF resolved_props THEN 1 ELSE 0)

OpMarkResolved(P, resolved_text, resolved_props, done) ==
  /\ Start
  /\ done \in 1..statements(resolved_text, resolved_props)
  /\ Apply(op_mark_resolved(DB, P, resolved_text, resolved_props, done))
  /\ IF done = statements(resolved_text, resolved_props)
       THEN /\ dir_data' = parse_local_abspath(dir_data, P)
            /\ Returned("op_mark_resolved", P, "ok",
                        [resolved_text |-> resolved_text,
                         resolved_props |-> resolved_props])
       ELSE /\ dir_data' = NoHandles
            /\ Returned("op_mark_resolved", P, "interrupted",
                        [resolved_text |-> resolved_text,
                         resolved_props |-> resolved_props])
  /\ UNCHANGED <<pristine, repository>>
  /\ adm_access' =
       IF done = statements(resolved_text, resolved_props)
         THEN flush_entries(adm_access, pdh_of(P))
         ELSE EmptyTable
  /\ UNCHANGED <<lock_vars, wq_vars, open_vars, file_vars, lock, root_vars, sql_vars>>

(* For the wcroot itself the row lives in the parent directory's database, *)
(* and the parent of this wcroot is no working copy.                       *)
TempOpRemoveEntry(P, done) ==
  /\ Start
  /\ done \in 1..3
  /\ IF P = <<>>
       THEN /\ done = 3
            /\ dir_data' = parse_local_abspath(dir_data, P)
            /\ UNCHANGED <<base_node, working_node, actual_node>>
            /\ Returned("temp_op_remove_entry", P, "wc_not_working_copy",
                        [none |-> TRUE])
       ELSE /\ Apply(temp_op_remove_entry(DB, P, done))
            /\ IF done = 3
                 THEN /\ dir_data' = parse_local_abspath(dir_data, P)
                      /\ Returned("temp_op_remove_entry", P, "ok",
                                  [none |-> TRUE])
                 ELSE /\ dir_data' = NoHandles
                      /\ Returned("temp_op_remove_entry", P, "interrupted",
                                  [none |-> TRUE])
  /\ UNCHANGED <<pristine, repository>>
  /\ \E flush_entry_cache \in BOOLEAN :
       adm_access' = IF P # <<>> /\ done < 3
                       THEN EmptyTable
                       ELSE IF flush_entry_cache
                              THEN flush_entries(adm_access, pdh_of(P))
                              ELSE adm_access
  /\ UNCHANGED <<lock_vars, wq_vars, open_vars, file_vars, lock, root_vars, sql_vars>>

GlobalCommit(P, new_revision, new_author, new_checksum, keep_changelist) ==
  LET r == global_commit(DB, P, new_revision, 7, new_author, new_checksum,
                         keep_changelist)
  IN /\ Start
     /\ dir_data' = parse_local_abspath(dir_data, P)
     /\ Apply(r.db)
     /\ Returned("global_commit", P, r.err,
                 [new_revision |-> new_revision, new_author |-> new_author,
                  new_checksum |-> new_checksum,
                  keep_changelist |-> keep_changelist])
     /\ UNCHANGED <<pristine, repository>>
     /\ adm_access' = IF r.err = "ok"
                          THEN flush_entries(adm_access, pdh_of(P))
                          ELSE adm_access
     /\ UNCHANGED <<lock_vars, wq_vars, open_vars, file_vars, lock, root_vars, sql_vars>>

PristineInstall(checksum, size) ==
  /\ Start
  /\ dir_data' = parse_local_abspath(dir_data, <<>>)
  /\ pristine' = pristine_install(pristine, checksum, size)
  /\ pristine_files' = pristine_files \cup {svn_checksum_to_cstring(checksum)}
  /\ Returned("pristine_install", <<>>, "ok",
              [checksum |-> checksum, size |-> size])
  /\ UNCHANGED <<base_node, working_node, actual_node, repository>>
  /\ UNCHANGED <<lock_vars, wq_vars, open_vars, tempfiles, aux_vars>>

Next ==
  \/ \E P \in Paths, rev \in Revs, children \in {{}, {"b"}} :
       /\ children # {} => P = <<"a">>
       /\ BaseAddDirectory(P, rev, children)
  \/ \E P \in NonRoot, rev \in Revs : BaseAddFile(P, rev, "c1", 1)
  \/ \E P \in NonRoot : BaseAddSymlink(P, 1)
  \/ \E P \in NonRoot, status \in {"absent", "excluded", "not_present"} :
       BaseAddAbsentNode(P, 1, "file", status)
  \/ \E P \in Paths : BaseRemove(P)
  \/ \E P \in Paths, props \in {NULL, "h3"} : OpSetProps(P, props)
  \/ \E P \in Paths, changelist \in {NULL, "cl2"} :
       OpSetChangelist(P, changelist)
  \/ \E P \in Paths, tree_conflict \in {NULL, "d1"} :
       OpSetTreeConflict(P, tree_conflict)
  \/ \E P \in Paths, resolved_text, resolved_props \in BOOLEAN,
        done \in 1..2 :
       OpMarkResolved(P, resolved_text, resolved_props, done)
  \/ \E P \in Paths, done \in 1..3 : TempOpRemoveEntry(P, done)
  \/ \E P \in Paths, new_revision \in Revs, new_checksum \in {NULL, "c2"},
        keep_changelist \in BOOLEAN :
       GlobalCommit(P, new_revision, "carol", new_checksum, keep_changelist)
  \/ \E size \in Sizes : PristineInstall("c2", size)

Spec == Init /\ [][Next]_vars

-----------------------------------------------------------------------------
(* Read-only sessions over the databases a node can be found in: every    *)
(* presence and kind a BASE or WORKING row can carry, every conflict       *)
(* marker of an ACTUAL row (also the row base_remove leaves behind without *)
(* a BASE row), and the tree conflicts recorded on the parent.             *)

ReadPath == <<"a">>

ReadBase ==
  LET root == svn_wc__db_init(1, repos_path(<<>>), 0)
  IN {root.base} \cup
     {insert_base_node(root,
        ibb(ReadPath, 1, repos_path(ReadPath), status, kind, 1)).base :
        status \in {"normal", "absent", "excluded", "not_present",
                    "incomplete"},
        kind \in {"file", "subdir"}}

ReadWorking ==
  {EmptyTable} \cup
  {table_of(ReadPath, {working_row(<<>>, presence, kind, NULL)}) :
     presence \in {"normal", "not-present", "base-deleted", "incomplete"},
     kind \in {"file", "subdir"}}
  \cup {table_of(ReadPath, {working_row(<<>>, "absent", "file", NULL)})}

ReadActualRows ==
  {actual_row(<<>>),
   [actual_row(<<>>) EXCEPT !.prop_reject = "prej"],
   [actual_row(<<>>) EXCEPT !.conflict_old = "old"],
   [actual_row(<<>>) EXCEPT !.conflict_new = "new"],
   [actual_row(<<>>) EXCEPT !.conflict_working = "wrk"]}

ReadParentRows ==
  {[actual_row(SqlNullPath) EXCEPT !.properties = "(h3)"],
   [actual_row(SqlNullPath)
      EXCEPT !.tree_conflict_data =
        svn_wc__write_tree_conflicts({<<"a", "d1">>})],
   [actual_row(SqlNullPath)
      EXCEPT !.tree_conflict_data =
        svn_wc__write_tree_conflicts({<<"b", "d1">>})]}

ReadActual ==
  {a1 @@ a2 :
     a1 \in {EmptyTable} \cup {table_of(ReadPath, {r}) : r \in ReadActualRows},
     a2 \in {EmptyTable} \cup {table_of(<<>>, {r}) : r \in ReadParentRows}}

InitRead ==
  /\ \E b \in ReadBase, w \in ReadWorking, a \in ReadActual :
       /\ shadowing([base |-> b, working |-> w, actual |-> a])
       /\ base_node = b
       /\ working_node = w
       /\ actual_node = a
  /\ pristine = ("sha1$c1" :> 1)
  /\ repository = FirstRepository
  /\ dir_data \in {NoHandles, (<<>> :> [wcroot |-> TRUE]),
                   get_or_create_pdh(NoHandles, ReadPath)}
  /\ ret = [op |-> "open", path |-> <<>>, err |-> "ok"]
  /\ nops = 0
  /\ QuietSession

Read(op, path, out) ==
  ret' = [op |-> op, path |-> path, err |-> out.err, out |-> out,
          pre |-> DB, pre_dd |-> dir_data]

ReadInfo(P) ==
  /\ dir_data' = read_info_handles(dir_data, DB, P)
  /\ Read("read_info", P, read_info(DB, P))
  /\ UNCHANGED <<base_node, working_node, actual_node, pristine,
                 repository, nops>>
  /\ UNCHANGED <<lock_vars, wq_vars, open_vars, file_vars, aux_vars>>

BaseGetInfo(P) ==
  /\ dir_data' = parse_local_abspath(dir_data, P)
  /\ Read("base_get_info", P, base_get_info(DB, P))
  /\ UNCHANGED <<base_node, working_node, actual_node, pristine,
                 repository, nops>>
  /\ UNCHANGED <<lock_vars, wq_vars, open_vars, file_vars, aux_vars>>

OpReadTreeConflict(P) ==
  /\ dir_data' = IF P = <<>> THEN dir_data
                 ELSE parse_local_abspath(dir_data, svn_relpath_dirname(P))
  /\ Read("op_read_tree_conflict", P,
          [err |-> "ok", tree_conflict |-> op_read_tree_conflict(DB, P)])
  /\ UNCHANGED <<base_node, working_node, actual_node, pristine,
                 repository, nops>>
  /\ UNCHANGED <<lock_vars, wq_vars, open_vars, file_vars, aux_vars>>

NextRead ==
  \/ \E P \in Paths : ReadInfo(P)
  \/ \E P \in Paths : BaseGetInfo(P)
  \/ \E P \in Paths : OpReadTreeConflict(P)
  \/ \E resolved_text, resolved_props \in BOOLEAN, done \in 1..2 :
       OpMarkResolved(ReadPath, resolved_text, resolved_props, done)

SpecRead == InitRead /\ [][NextRead]_vars

-----------------------------------------------------------------------------
(* Properties of the mutating calls (specification Spec).                  *)

Committed == ret.op = "global_commit" /\ ret.err = "ok"

(* C1: starting from a database in which every ACTUAL row has a BASE or a  *)
(* WORKING row at the same path, after any completed public call no ACTUAL *)
(* row lacks both.                                                         *)
C1_Layering ==
  (ret.op # "open" /\ ret.err # "interrupted" /\ layered(ret.pre))
    => layered(DB)

(* C2: after a successful global_commit(P, R, ...) the BASE row of P       *)
(* exists with revision R and presence normal and P has no WORKING row,    *)
(* whatever rows P had before.                                             *)
C2_CommitInstallsBase ==
  Committed =>
    /\ have(base_node, ret.path)
    /\ base_node[ret.path].revnum = ret.args.new_revision
    /\ base_node[ret.path].presence = "normal"
    /\ ~have(working_node, ret.path)

C2_Witness ==
  /\ Committed
  /\ ~have(ret.pre.base, ret.path)
  /\ have(ret.pre.working, ret.path)
  /\ have(ret.pre.actual, ret.path)
  /\ base_node[ret.path].revnum = 2

(* C3: a mutating call other than op_mark_resolved is all-or-nothing: when *)
(* it is interrupted the tables are as before the call or as after the     *)
(* whole call.                                                             *)
C3_AllOrNothing ==
  (ret.op = "temp_op_remove_entry" /\ ret.err = "interrupted")
    => \/ DB = ret.pre
       \/ DB = temp_op_remove_entry(ret.pre, ret.path, 3)

(* C4: global_commit stores as the new BASE properties the ACTUAL          *)
(* properties when non-null, else the WORKING properties when non-null,    *)
(* else the previous BASE properties, as the same blob.                    *)
C4_CommitProps ==
  Committed =>
    LET p == ret.path
        pre == ret.pre
    IN base_node[p].properties =
         IF have(pre.actual, p) /\ pre.actual[p].properties # NULL
           THEN pre.actual[p].properties
         ELSE IF have(pre.working, p) /\ pre.working[p].properties # NULL
           THEN pre.working[p].properties
         ELSE IF have(pre.base, p) THEN pre.base[p].properties ELSE NULL

C4_Witness ==
  /\ Committed
  /\ have(ret.pre.actual, ret.path)
  /\ ret.pre.actual[ret.path].properties = NULL
  /\ have(ret.pre.working, ret.path)
  /\ ret.pre.working[ret.path].properties = "(h2)"
  /\ have(ret.pre.base, ret.path)
  /\ ret.pre.base[ret.path].properties = "(h1)"
  /\ base_node[ret.path].properties = "(h2)"

(* C5: after global_commit(P, keep_changelist = k) on a path with an       *)
(* ACTUAL row: if k and the row had a changelist, the row remains with     *)
(* that changelist and null props, text-conflict fields, prop_reject and   *)
(* tree_conflict_data; otherwise P has no ACTUAL row.  A path without an   *)
(* ACTUAL row has none afterwards.                                         *)
C5_CommitActual ==
  Committed =>
    LET p == ret.path
        pre == ret.pre
    IN IF have(pre.actual, p) /\ ret.args.keep_changelist
          /\ pre.actual[p].changelist # NULL
         THEN /\ have(actual_node, p)
              /\ actual_node[p].changelist = pre.actual[p].changelist
              /\ actual_node[p].properties = NULL
              /\ actual_node[p].conflict_old = NULL
              /\ actual_node[p].conflict_new = NULL
              /\ actual_node[p].conflict_working = NULL
              /\ actual_node[p].prop_reject = NULL
              /\ actual_node[p].tree_conflict_data = SqlNullTc
         ELSE ~have(actual_node, p)

C5_Witness ==
  /\ Committed
  /\ ret.args.keep_changelist
  /\ have(ret.pre.actual, ret.path)
  /\ ret.pre.actual[ret.path].changelist = "cl1"
  /\ ret.pre.actual[ret.path].prop_reject # NULL
  /\ have(actual_node, ret.path)

(* A file committed with the checksum of an installed pristine.            *)
CommittedPristine ==
  /\ Committed
  /\ ret.args.new_checksum # NULL
  /\ bind_checksum(ret.args.new_checksum) \in DOMAIN pristine
  /\ base_node[ret.path].kind = "file"

(* C6 as stated: after pristine_install(content of length n, checksum C)   *)
(* and global_commit(P, new_rev, author, checksum = C) on a file,          *)
(* base_get_info(P) returns revision new_rev, changed_author author,       *)
(* checksum C and translated_size n.                                       *)
C6_SizeOfPristine ==
  CommittedPristine =>
    LET info == base_get_info(DB, ret.path)
    IN /\ info.revision = ret.args.new_revision
       /\ info.changed_author = ret.args.new_author
       /\ info.checksum = ret.args.new_checksum
       /\ info.translated_size =
            pristine[bind_checksum(ret.args.new_checksum)]

(* C6 amended: ... base_get_info(P) returns revision new_rev,              *)
(* changed_author author and checksum C; the commit stores no              *)
(* translated_size, so the size reported is SVN_INVALID_FILESIZE.          *)
C6_CommitInfo ==
  CommittedPristine =>
    LET info == base_get_info(DB, ret.path)
    IN /\ info.err = "ok"
       /\ info.revision = ret.args.new_revision
       /\ info.changed_author = ret.args.new_author
       /\ info.checksum = ret.args.new_checksum
       /\ info.translated_size = SVN_INVALID_FILESIZE

C6_Witness ==
  /\ CommittedPristine
  /\ ret.args.new_checksum = "c2"
  /\ pristine["sha1$c2"] = 12
  /\ have(ret.pre.base, ret.path)
  /\ ret.pre.base[ret.path].translated_size = 1
  /\ base_get_info(DB, ret.path).checksum = "c2"

(* C7: every BASE and ACTUAL row has parent_relpath NULL exactly when its  *)
(* relpath is "", and the dirname of its relpath otherwise.                *)
C7_ParentRelpath ==
  /\ \A p \in DOMAIN base_node :
       base_node[p].parent_relpath =
         IF p = <<>> THEN SqlNullPath ELSE svn_relpath_dirname(p)
  /\ \A p \in DOMAIN actual_node :
       actual_node[p].parent_relpath =
         IF p = <<>> THEN SqlNullPath ELSE svn_relpath_dirname(p)

-----------------------------------------------------------------------------
(* Properties of the readers (specification SpecRead).                     *)

FieldsConflicted(db, p) ==
  /\ have(db.actual, p)
  /\ \/ db.actual[p].prop_reject # NULL
     \/ db.actual[p].conflict_old # NULL
     \/ db.actual[p].conflict_new # NULL
     \/ db.actual[p].conflict_working # NULL

TreeConflicted(db, p) ==
  /\ p # <<>>
  /\ have(db.actual, svn_relpath_dirname(p))
  /\ db.actual[svn_relpath_dirname(p)].tree_conflict_data # SqlNullTc
  /\ \E e \in db.actual[svn_relpath_dirname(p)].tree_conflict_data[2] :
       e[1] = svn_relpath_basename(p)

(* The row combinations read_info accepts.                                 *)
Readable(db, p) ==
  /\ have(db.base, p) \/ have(db.working, p)
  /\ have(db.working, p) =>
       /\ db.working[p].presence \in
            {"normal", "not-present", "base-deleted", "incomplete"}
       /\ have(db.base, p) =>
            db.base[p].presence \notin {"absent", "excluded"}

StatusOfWorking(presence, kind) ==
  CASE presence = "normal" ->
         IF kind = "subdir" THEN "obstructed_add" ELSE "added"
    [] presence \in {"not-present", "base-deleted"} ->
         IF kind = "subdir" THEN "obstructed_delete" ELSE "deleted"
    [] presence = "incomplete" -> "incomplete"

StatusOfBase(presence, kind) ==
  CASE presence = "normal" /\ kind = "subdir" -> "obstructed"
    [] presence = "not-present" -> "not_present"
    [] OTHER -> presence

(* C8: read_info reports for a WORKING row normal as added, not_present    *)
(* and base_deleted as deleted, incomplete as incomplete, and on a subdir  *)
(* obstructed_add for added and obstructed_delete for deleted; without a   *)
(* WORKING row the BASE presence unchanged, except obstructed for normal   *)
(* on a subdir.  read_info and base_get_info report a subdir as kind dir.  *)
C8_StatusAndKind ==
  LET p == ret.path
      pre == ret.pre
  IN /\ (ret.op = "read_info" /\ Readable(pre, p)) =>
          /\ ret.err = "ok"
          /\ ret.out.status =
               IF have(pre.working, p)
                 THEN StatusOfWorking(pre.working[p].presence,
                                      pre.working[p].kind)
                 ELSE StatusOfBase(pre.base[p].presence, pre.base[p].kind)
          /\ ret.out.kind =
               LET kind == IF have(pre.working, p) THEN pre.working[p].kind
                                                   ELSE pre.base[p].kind
               IN IF kind = "subdir" THEN "dir" ELSE kind
     /\ (ret.op = "base_get_info" /\ have(pre.base, p)) =>
          /\ ret.err = "ok"
          /\ ret.out.status =
               StatusOfBase(pre.base[p].presence, pre.base[p].kind)
          /\ ret.out.kind = IF pre.base[p].kind = "subdir"
                              THEN "dir" ELSE pre.base[p].kind

C8_Witness ==
  /\ ret.op = "read_info"
  /\ have(ret.pre.working, ret.path)
  /\ ret.pre.working[ret.path].presence = "base-deleted"
  /\ ret.pre.working[ret.path].kind = "subdir"
  /\ ret.out.status = "obstructed_delete"
  /\ ret.out.kind = "dir"

ReadOfUnknown ==
  /\ ret.op = "read_info"
  /\ ~have(ret.pre.base, ret.path)
  /\ ~have(ret.pre.working, ret.path)

IsAncestorOrSelf(d, p) ==
  Len(d) <= Len(p) /\ SubSeq(p, 1, Len(d)) = d

(* C9 as stated: read_info on a path with an ACTUAL row only fails with    *)
(* wc_corrupt, on a path with no row at all with wc_path_not_found, and in *)
(* both cases no table row and no cache entry is changed.                  *)
C9_NothingChanged ==
  ReadOfUnknown =>
    /\ ret.err = IF have(ret.pre.actual, ret.path)
                   THEN "wc_corrupt" ELSE "wc_path_not_found"
    /\ DB = ret.pre
    /\ dir_data = ret.pre_dd

(* C9 amended: ... in both cases no table row is changed and no handle     *)
(* that knew its wcroot is changed or dropped; resolving the path may add  *)
(* handles for its directory and ancestors and fill in the wcroot of a     *)
(* handle that lacked one.                                                 *)
C9_RowsAndKnownHandlesKept ==
  ReadOfUnknown =>
    /\ ret.err = IF have(ret.pre.actual, ret.path)
                   THEN "wc_corrupt" ELSE "wc_path_not_found"
    /\ DB = ret.pre
    /\ \A d \in DOMAIN ret.pre_dd :
         /\ d \in DOMAIN dir_data
         /\ ret.pre_dd[d].wcroot => dir_data[d] = ret.pre_dd[d]
    /\ \A d \in DOMAIN dir_data \ DOMAIN ret.pre_dd :
         IsAncestorOrSelf(d, ret.path)

C9_Witness ==
  /\ ReadOfUnknown
  /\ ret.err = "wc_corrupt"
  /\ <<"a">> \in DOMAIN ret.pre_dd
  /\ ~ret.pre_dd[<<"a">>].wcroot
  /\ dir_data[<<"a">>].wcroot
  /\ <<>> \notin DOMAIN ret.pre_dd
  /\ <<>> \in DOMAIN dir_data

(* C10: for a path with a BASE or WORKING row, read_info reports           *)
(* conflicted exactly when the ACTUAL row has prop_reject, conflict_old,   *)
(* conflict_new or conflict_working set or the parent's ACTUAL             *)
(* tree-conflict map has an entry for the basename; so after               *)
(* op_mark_resolved(text, props) cleared the four fields, with no tree     *)
(* conflict recorded, conflicted is false.                                 *)
C10_Conflicted ==
  LET p == ret.path
  IN /\ (ret.op = "read_info" /\ Readable(ret.pre, p)) =>
          /\ ret.err = "ok"
          /\ ret.out.conflicted =
               (FieldsConflicted(ret.pre, p) \/ TreeConflicted(ret.pre, p))
     /\ (/\ ret.op = "op_mark_resolved"
         /\ ret.err = "ok"
         /\ ret.args.resolved_text
         /\ ret.args.resolved_props
         /\ Readable(DB, p)
         /\ ~TreeConflicted(DB, p)) =>
          /\ read_info(DB, p).err = "ok"
          /\ ~read_info(DB, p).conflicted

C10_Witness ==
  /\ ret.op = "read_info"
  /\ Readable(ret.pre, ret.path)
  /\ have(ret.pre.actual, ret.path)
  /\ ~FieldsConflicted(ret.pre, ret.path)
  /\ TreeConflicted(ret.pre, ret.path)
  /\ ret.out.conflicted

-----------------------------------------------------------------------------
(* Properties, tree conflicts and conflict resolution (specification Spec). *)

(* The properties the three rows of p hold, layered.                       *)
LayeredProps(db, p) ==
  IF have(db.actual, p) /\ db.actual[p].properties # NULL
    THEN column_properties(db.actual[p].properties)
  ELSE IF have(db.working, p) /\ db.working[p].properties # NULL
    THEN column_properties(db.working[p].properties)
  ELSE column_properties(db.base[p].properties)

HasProps(db, p) ==
  \/ have(db.base, p)
  \/ have(db.working, p) /\ db.working[p].properties # NULL
  \/ have(db.actual, p) /\ db.actual[p].properties # NULL

SetProps == ret.op = "op_set_props" /\ ret.err = "ok"

(* C11 as stated: after op_set_props(P, X), read_props(P) returns X, for   *)
(* every X.                                                                *)
C11_ReadsWhatWasSet ==
  SetProps => read_props(DB, ret.path).props = ret.args.props

(* C11 amended: read_props returns the ACTUAL props when non-null, else    *)
(* the WORKING props when non-null, else the BASE props; after             *)
(* op_set_props(P, X) read_props(P) returns X when X is non-null and what  *)
(* read_pristine_props(P) returns when X is null; read_pristine_props(P)   *)
(* and the BASE and WORKING rows are as before the call.                   *)
C11_ReadProps ==
  /\ \A p \in Paths :
       HasProps(DB, p) =>
         read_props(DB, p) = [err |-> "ok", props |-> LayeredProps(DB, p)]
  /\ SetProps =>
       /\ read_props(DB, ret.path) =
            IF ret.args.props # NULL
              THEN [err |-> "ok", props |-> ret.args.props]
              ELSE read_pristine_props(DB, ret.path)
       /\ read_pristine_props(DB, ret.path) =
            read_pristine_props(ret.pre, ret.path)
       /\ base_node = ret.pre.base
       /\ working_node = ret.pre.working

C11_Witness ==
  /\ SetProps
  /\ ret.args.props = "h3"
  /\ have(ret.pre.working, ret.path)
  /\ ret.pre.working[ret.path].properties = "(h2)"
  /\ ~have(ret.pre.actual, ret.path)
  /\ read_props(DB, ret.path).props = "h3"
  /\ read_pristine_props(DB, ret.path).props = "h2"

SetTreeConflict == ret.op = "op_set_tree_conflict" /\ ret.err = "ok"

Siblings(p) ==
  {svn_relpath_join(svn_relpath_dirname(p), n) : n \in {"a", "b", "c"}}
    \ {p}

(* C12: after op_set_tree_conflict(P, d), op_read_tree_conflict(P) returns *)
(* d (null after a removal); op_read_tree_conflict of every other child of *)
(* P's parent returns what it returned before; removing an entry when the  *)
(* parent has no ACTUAL row inserts no ACTUAL row.                         *)
C12_TreeConflictRoundTrip ==
  SetTreeConflict =>
    /\ op_read_tree_conflict(DB, ret.path) = ret.args.tree_conflict
    /\ \A q \in Siblings(ret.path) :
         op_read_tree_conflict(DB, q) = op_read_tree_conflict(ret.pre, q)
    /\ (ret.args.tree_conflict = NULL
          /\ ~have(ret.pre.actual, svn_relpath_dirname(ret.path)))
         => actual_node = ret.pre.actual

C12_Witness ==
  /\ SetTreeConflict
  /\ ret.path = <<"a", "b">>
  /\ ret.args.tree_conflict = NULL
  /\ op_read_tree_conflict(ret.pre, <<"a", "b">>) = "d1"
  /\ op_read_tree_conflict(DB, <<"a", "b">>) = NULL
  /\ op_read_tree_conflict(DB, <<"a", "c">>) = "d0"

MarkedResolved ==
  /\ ret.op = "op_mark_resolved"
  /\ ret.args.resolved_text
  /\ ret.args.resolved_props

(* The database one complete op_mark_resolved(p, text, props) leaves.      *)
Resolved(db, p) ==
  [db EXCEPT !.actual =
     [q \in DOMAIN db.actual |->
        IF q = p
          THEN [db.actual[q] EXCEPT !.conflict_old = NULL,
                                    !.conflict_new = NULL,
                                    !.conflict_working = NULL,
                                    !.prop_reject = NULL]
          ELSE db.actual[q]]]

OnlyConflictColumns(pre, post, p) ==
  /\ post.base = pre.base
  /\ post.working = pre.working
  /\ DOMAIN post.actual = DOMAIN pre.actual
  /\ \A q \in DOMAIN pre.actual :
       /\ q # p => post.actual[q] = pre.actual[q]
       /\ post.actual[q].parent_relpath = pre.actual[q].parent_relpath
       /\ post.actual[q].changelist = pre.actual[q].changelist
       /\ post.actual[q].properties = pre.actual[q].properties
       /\ post.actual[q].tree_conflict_data =
            pre.actual[q].tree_conflict_data

(* C13: a complete op_mark_resolved(P, text, props) run after a complete   *)
(* run, or after a run interrupted between its two statements, leaves the  *)
(* database one complete run leaves; the state after an interrupted run    *)
(* keeps the layering of the rows; the call changes no column other than   *)
(* the text-conflict fields and prop_reject of P's ACTUAL row.             *)
C13_MarkResolvedConverges ==
  MarkedResolved =>
    /\ ret.err = "ok" => DB = Resolved(ret.pre, ret.path)
    /\ op_mark_resolved(DB, ret.path, TRUE, TRUE, 2)
         = Resolved(ret.pre, ret.path)
    /\ layered(ret.pre) => layered(DB)
    /\ OnlyConflictColumns(ret.pre, DB, ret.path)

C13_Witness ==
  /\ MarkedResolved
  /\ ret.err = "interrupted"
  /\ have(ret.pre.actual, ret.path)
  /\ ret.pre.actual[ret.path].conflict_old # NULL
  /\ actual_node[ret.path].conflict_old = NULL
  /\ actual_node[ret.path].prop_reject # NULL
  /\ actual_node[ret.path].changelist = "cl1"

-----------------------------------------------------------------------------
(* Working-copy locks.  WC_LOCK has the key (wc_id, local_dir_relpath);    *)
(* with the one wcroot of the model a row is the relpath.  Two engine      *)
(* instances work on the same database: this one (dir_data, locked) and a  *)
(* second one (peer).  locked is the set of directories whose handle has   *)
(* its locked flag set.                                                    *)

LockPaths == {<<>>, <<"a">>, <<"f">>}
Instances == {"self", "peer"}

instance(who) ==
  IF who = "self" THEN [dir_data |-> dir_data, locked |-> locked] ELSE peer

(* STMT_INSERT_WC_LOCK: any failure of the insert is reported as locked.   *)
wclock_set(lk, local_relpath) ==
  IF local_relpath \in lk
    THEN [err |-> "wc_locked", wc_lock |-> lk]
    ELSE [err |-> "ok", wc_lock |-> lk \cup {local_relpath}]

(* STMT_SELECT_WC_LOCK *)
wclocked(lk, local_relpath) == local_relpath \in lk

(* A wclock_remove that clears nothing in memory.                          *)
wclock_remove_row_only(lk, e, local_abspath) ==
  [wc_lock |-> lk \ {local_abspath}, locked |-> e.locked]

(* STMT_DELETE_WC_LOCK, then the flag of the handle of that very path, if  *)
(* there is one, is cleared.                                               *)
wclock_remove(lk, e, local_abspath) ==
  [wc_lock |-> lk \ {local_abspath},
   locked |-> IF local_abspath \in DOMAIN e.dir_data
                THEN e.locked \ {local_abspath} ELSE e.locked]

(* The handle is looked up without creating it and written to unchecked:   *)
(* without a handle the write goes through a null pointer and the process  *)
(* of that instance ends.                                                  *)
temp_mark_locked(e, local_dir_abspath) ==
  IF local_dir_abspath \in DOMAIN e.dir_data
    THEN [err |-> "ok", dir_data |-> e.dir_data,
          locked |-> e.locked \cup {local_dir_abspath}]
    ELSE [err |-> "crash", dir_data |-> NoHandles, locked |-> {}]

temp_own_lock(e, local_dir_abspath) ==
  local_dir_abspath \in DOMAIN e.dir_data /\ local_dir_abspath \in e.locked

FreshTables ==
  /\ base_node = svn_wc__db_init(1, repos_path(<<>>), 0).base
  /\ working_node = EmptyTable
  /\ actual_node = EmptyTable
  /\ pristine = ("sha1$c1" :> 1)
  /\ repository = FirstRepository

(* held: the paths with a successful wclock_set and no wclock_remove       *)
(* since.                                                                  *)
InitLock ==
  /\ FreshTables
  /\ dir_data = NoHandles
  /\ ret = [op |-> "open", path |-> <<>>, err |-> "ok", who |-> "self",
            held |-> {}]
  /\ nops = 0
  /\ QuietSession

Becomes(who, e) ==
  IF who = "self"
    THEN dir_data' = e.dir_data /\ locked' = e.locked /\ UNCHANGED peer
    ELSE peer' = e /\ UNCHANGED <<dir_data, locked>>

LockReturned(op, who, P, err, out, held) ==
  ret' = [op |-> op, path |-> P, err |-> err, who |-> who, out |-> out,
          held |-> held, pre_held |-> ret.held, pre_lock |-> wc_lock,
          pre_own |-> temp_own_lock(instance(who), P)]

WclockSet(who, P) ==
  LET e == instance(who)
      r == get_statement_for_path(e.dir_data, P, format, engine, work_queue)
      s == wclock_set(wc_lock, P)
  IN /\ Becomes(who, [e EXCEPT !.dir_data = r.dir_data])
     /\ wc_lock' = IF r.err = "ok" THEN s.wc_lock ELSE wc_lock
     /\ LockReturned("wclock_set", who, P,
                     IF r.err = "ok" THEN s.err ELSE r.err, FALSE,
                     IF r.err = "ok" /\ s.err = "ok"
                       THEN ret.held \cup {P} ELSE ret.held)
     /\ UNCHANGED <<db_vars, nops, wq_vars, open_vars, file_vars, aux_vars>>

Wclocked(who, P) ==
  LET e == instance(who)
      r == get_statement_for_path(e.dir_data, P, format, engine, work_queue)
  IN /\ Becomes(who, [e EXCEPT !.dir_data = r.dir_data])
     /\ LockReturned("wclocked", who, P, r.err,
                     r.err = "ok" /\ wclocked(wc_lock, P), ret.held)
     /\ UNCHANGED <<db_vars, nops, wc_lock, wq_vars, open_vars, file_vars, aux_vars>>

WclockRemove(who, P) ==
  LET e == instance(who)
      r == get_statement_for_path(e.dir_data, P, format, engine, work_queue)
      d == wclock_remove(wc_lock, [e EXCEPT !.dir_data = r.dir_data], P)
  IN /\ Becomes(who, [dir_data |-> r.dir_data,
                      locked |-> IF r.err = "ok" THEN d.locked ELSE e.locked])
     /\ wc_lock' = IF r.err = "ok" THEN d.wc_lock ELSE wc_lock
     /\ LockReturned("wclock_remove", who, P, r.err, FALSE,
                     IF r.err = "ok" THEN ret.held \ {P} ELSE ret.held)
     /\ UNCHANGED <<db_vars, nops, wq_vars, open_vars, file_vars, aux_vars>>

TempMarkLocked(who, P) ==
  LET m == temp_mark_locked(instance(who), P)
  IN /\ Becomes(who, [dir_data |-> m.dir_data, locked |-> m.locked])
     /\ LockReturned("temp_mark_locked", who, P, m.err, FALSE, ret.held)
     /\ UNCHANGED <<db_vars, nops, wc_lock, wq_vars, open_vars, file_vars, aux_vars>>

TempOwnLock(who, P) ==
  /\ LockReturned("temp_own_lock", who, P, "ok",
                  temp_own_lock(instance(who), P), ret.held)
  /\ UNCHANGED <<db_vars, dir_data, nops, lock_vars, wq_vars, open_vars,
                 file_vars, aux_vars>>

NextLock ==
  \/ \E who \in Instances, P \in LockPaths : WclockSet(who, P)
  \/ \E who \in Instances, P \in LockPaths : Wclocked(who, P)
  \/ \E who \in Instances, P \in LockPaths : WclockRemove(who, P)
  \/ \E who \in Instances, P \in DiskDirs : TempMarkLocked(who, P)
  \/ \E who \in Instances, P \in DiskDirs : TempOwnLock(who, P)

SpecLock == InitLock /\ [][NextLock]_vars

(* C14 as stated: while a successful wclock_set(P) has not been followed   *)
(* by a wclock_remove(P), a wclock_set(P) from either instance fails with  *)
(* wc_locked and leaves wc_lock as it was and wclocked(P) answers true;    *)
(* after a wclock_remove(P) wclocked(P) answers false, temp_own_lock(P) is *)
(* false in both instances and wclock_set(P) succeeds.                     *)
LockHeld ==
  /\ wc_lock = ret.held
  /\ (ret.op = "wclock_set" /\ ret.path \in ret.pre_held)
       => (ret.err = "wc_locked" /\ wc_lock = ret.pre_lock)
  /\ ret.op = "wclocked" => (ret.out <=> ret.path \in ret.held)

LockReleased ==
  /\ ret.op = "wclock_remove" => ~wclocked(wc_lock, ret.path)
  /\ (ret.op = "wclock_set" /\ ret.path \notin ret.pre_held)
       => (ret.err = "ok" /\ wclocked(wc_lock, ret.path))

C14_LockReleasedEverywhere ==
  /\ LockHeld
  /\ LockReleased
  /\ ret.op = "wclock_remove" =>
       \A who \in Instances : ~temp_own_lock(instance(who), ret.path)

(* C14, amended: the same, with temp_own_lock(P) false in the instance     *)
(* that called wclock_remove(P).                                           *)
C14_LockExclusive ==
  /\ LockHeld
  /\ LockReleased
  /\ ret.op = "wclock_remove" => ~temp_own_lock(instance(ret.who), ret.path)

(* A lock that was set, and marked as owned by the instance that now       *)
(* removes it, while the other instance has resolved paths of its own.     *)
C14_Witness ==
  /\ ret.op = "wclock_remove"
  /\ ret.err = "ok"
  /\ ret.path \in ret.pre_held
  /\ ret.pre_own
  /\ instance(IF ret.who = "self" THEN "peer" ELSE "self").dir_data
       # NoHandles

-----------------------------------------------------------------------------
(* The work queue.  WORK_QUEUE rows are id -> serialized item; the id is   *)
(* auto-incrementing, so sqlite_sequence remembers the highest id ever     *)
(* given out.  The calls run on a working copy of any format, opened with  *)
(* any engine options, possibly with work left over by an earlier process. *)

MaxId == 3
Items == {"w1", "w2"}
Formats == {3, 12, 14, SVN_WC__VERSION, SVN_WC__VERSION + 1}

svn_skel__unparse(work_item) ==
  CASE work_item = "w1" -> "(w1)"
    [] work_item = "w2" -> "(w2)"
    [] OTHER -> NULL

svn_skel__parse(val) ==
  CASE val = "(w1)" -> "w1"
    [] val = "(w2)" -> "w2"
    [] OTHER -> NULL

svn_wc__db_read_kind(db, local_relpath, allow_missing) ==
  LET r == read_info(db, local_relpath)
  IN IF r.err = "ok" THEN [err |-> "ok", kind |-> r.kind]
     ELSE IF allow_missing /\ r.err = "wc_path_not_found"
       THEN [err |-> "ok", kind |-> "unknown"]
       ELSE [err |-> r.err, kind |-> NULL]

(* The test all three calls make first: a path below the wcroot that is a  *)
(* directory node has no work queue of its own.                            *)
no_work_queue(db, local_relpath) ==
  IF local_relpath = <<>>
    THEN [err |-> "ok", stub |-> FALSE]
    ELSE LET k == svn_wc__db_read_kind(db, local_relpath, TRUE)
         IN [err |-> k.err, stub |-> k.err = "ok" /\ k.kind = "dir"]

(* An insert that numbers the new row one above the highest row present.   *)
wq_add_after_highest(db, wq, seq, local_relpath, work_item) ==
  LET id == IF DOMAIN wq = {} THEN 1
            ELSE 1 + CHOOSE i \in DOMAIN wq : \A j \in DOMAIN wq : j <= i
  IN [err |-> "ok",
      work_queue |-> (id :> svn_skel__unparse(work_item)) @@ wq,
      sqlite_sequence |-> seq]

wq_add(db, wq, seq, local_relpath, work_item) ==
  LET k == no_work_queue(db, local_relpath)
  IN IF k.err # "ok"
       THEN [err |-> k.err, work_queue |-> wq, sqlite_sequence |-> seq]
     ELSE IF k.stub
       THEN [err |-> "wc_path_not_found", work_queue |-> wq,
             sqlite_sequence |-> seq]
       ELSE [err |-> "ok",
             work_queue |-> ((seq + 1) :> svn_skel__unparse(work_item)) @@ wq,
             sqlite_sequence |-> seq + 1]

(* STMT_SELECT_WORK_ITEM: the row with the lowest id.                      *)
wq_fetch(db, wq, local_relpath) ==
  LET k == no_work_queue(db, local_relpath)
  IN IF k.err # "ok" THEN [err |-> k.err, id |-> 0, work_item |-> NULL]
     ELSE IF k.stub \/ DOMAIN wq = {}
       THEN [err |-> "ok", id |-> 0, work_item |-> NULL]
       ELSE LET id == CHOOSE i \in DOMAIN wq : \A j \in DOMAIN wq : i <= j
            IN [err |-> "ok", id |-> id,
                work_item |-> svn_skel__parse(wq[id])]

(* STMT_DELETE_WORK_ITEM *)
wq_completed(db, wq, local_relpath, id) ==
  LET k == no_work_queue(db, local_relpath)
  IN IF k.err # "ok" THEN [err |-> k.err, work_queue |-> wq]
     ELSE IF k.stub THEN [err |-> "ok", work_queue |-> wq]
     ELSE [err |-> "ok",
           work_queue |-> [i \in DOMAIN wq \ {id} |-> wq[i]]]

QueueTables ==
  LET root == svn_wc__db_init(1, repos_path(<<>>), 0)
      dir == base_add_directory(root, <<"a">>, 1, repos_path(<<"a">>), 1,
                                "h1", {})
      file == base_add_file(dir, <<"a", "b">>, 1, repos_path(<<"a", "b">>),
                            1, "h1", "c1", 1)
  IN /\ base_node = file.base
     /\ working_node = EmptyTable
     /\ actual_node = EmptyTable
     /\ pristine = ("sha1$c1" :> 1)
     /\ repository = FirstRepository

InitQueue ==
  /\ QueueTables
  /\ dir_data = NoHandles
  /\ format \in Formats
  /\ engine \in [auto_upgrade : BOOLEAN, enforce_empty_wq : BOOLEAN]
  /\ \E left \in {0, 1} :
       /\ left = 1 => format >= SVN_WC__HAS_WORK_QUEUE
       /\ sqlite_sequence = left
       /\ work_queue = [i \in 1..left |-> svn_skel__unparse("w1")]
  /\ wc_lock = {}
  /\ locked = {}
  /\ peer = [dir_data |-> NoHandles, locked |-> {}]
  /\ pristine_files = {svn_checksum_to_cstring("c1")}
  /\ tempfiles = EmptyTable
  /\ QuietAux
  /\ ret = [op |-> "open", path |-> <<>>, err |-> "ok", removed |-> {}]
  /\ nops = 0

(* What a call was made on and what it answered; removed collects the ids  *)
(* deleted so far.                                                         *)
QueueReturned(op, P, r, err, out, removed) ==
  ret' = [op |-> op, path |-> P, err |-> err, out |-> out,
          resolved |-> r.err, opened |-> opens_wcroot(dir_data, P),
          stub |-> no_work_queue(DB, P).stub, removed |-> removed,
          pre |-> DB, pre_dd |-> dir_data, pre_wq |-> work_queue,
          pre_format |-> format]

(* Every call resolves its path first; read_kind resolves it once more.    *)
PathResolved(r, P) ==
  /\ dir_data' = IF r.err = "ok" /\ P # <<>>
                   THEN read_info_handles(r.dir_data, DB, P) ELSE r.dir_data
  /\ format' = r.format

WqAdd(wri, work_item) ==
  LET r == get_statement_for_path(dir_data, wri, format, engine, work_queue)
      a == wq_add(DB, work_queue, sqlite_sequence, wri, work_item)
  IN /\ sqlite_sequence < MaxId
     /\ PathResolved(r, wri)
     /\ work_queue' = IF r.err = "ok" THEN a.work_queue ELSE work_queue
     /\ sqlite_sequence' =
          IF r.err = "ok" THEN a.sqlite_sequence ELSE sqlite_sequence
     /\ QueueReturned("wq_add", wri, r, IF r.err = "ok" THEN a.err ELSE r.err,
                      work_item, ret.removed)
     /\ UNCHANGED <<db_vars, nops, lock_vars, engine, file_vars, aux_vars>>

WqFetch(wri) ==
  LET r == get_statement_for_path(dir_data, wri, format, engine, work_queue)
      f == wq_fetch(DB, work_queue, wri)
  IN /\ PathResolved(r, wri)
     /\ QueueReturned("wq_fetch", wri, r, IF r.err = "ok" THEN f.err ELSE r.err,
                      f, ret.removed)
     /\ UNCHANGED <<db_vars, nops, lock_vars, wq_vars, engine, file_vars, aux_vars>>

WqCompleted(wri, id) ==
  LET r == get_statement_for_path(dir_data, wri, format, engine, work_queue)
      c == wq_completed(DB, work_queue, wri, id)
  IN /\ PathResolved(r, wri)
     /\ work_queue' = IF r.err = "ok" THEN c.work_queue ELSE work_queue
     /\ QueueReturned("wq_completed", wri, r,
                      IF r.err = "ok" THEN c.err ELSE r.err, id,
                      IF r.err = "ok" THEN ret.removed \cup
                                             (DOMAIN work_queue
                                                \ DOMAIN c.work_queue)
                                      ELSE ret.removed)
     /\ UNCHANGED <<db_vars, nops, lock_vars, sqlite_sequence, engine,
                    file_vars, aux_vars>>

(* svn_wc__db_close forgets every handle.                                  *)
Close ==
  /\ dir_data # NoHandles
  /\ dir_data' = NoHandles
  /\ ret' = [op |-> "close", path |-> <<>>, err |-> "ok",
             removed |-> ret.removed]
  /\ UNCHANGED <<db_vars, nops, lock_vars, wq_vars, open_vars, file_vars, aux_vars>>

NextQueue ==
  \/ \E wri \in Paths, work_item \in Items : WqAdd(wri, work_item)
  \/ \E wri \in Paths : WqFetch(wri)
  \/ \E wri \in Paths, id \in 1..MaxId : WqCompleted(wri, id)
  \/ Close

SpecQueue == InitQueue /\ [][NextQueue]_vars

(* Properties of the work queue (specification SpecQueue).                 *)

Lowest(wq, out) ==
  IF DOMAIN wq = {}
    THEN out.id = 0 /\ out.work_item = NULL
    ELSE /\ out.id \in DOMAIN wq
         /\ \A j \in DOMAIN wq : out.id <= j
         /\ svn_skel__unparse(out.work_item) = wq[out.id]

Without(wq, id) == [i \in DOMAIN wq \ {id} |-> wq[i]]

Appended(wq, wq2, work_item) ==
  \E id \in DOMAIN wq2 \ DOMAIN wq :
    /\ \A j \in DOMAIN wq : j < id
    /\ wq2 = (id :> svn_skel__unparse(work_item)) @@ wq

(* C15 as stated: wq_fetch returns the pending item with the lowest id, or *)
(* id 0 and no item when the queue is empty, and removes nothing;          *)
(* wq_completed(id) removes that item and no other, and the item is never  *)
(* returned again.                                                         *)
C15_QueueOrder ==
  /\ (ret.op = "wq_fetch" /\ ret.err = "ok")
       => (work_queue = ret.pre_wq /\ Lowest(ret.pre_wq, ret.out))
  /\ (ret.op = "wq_completed" /\ ret.err = "ok")
       => work_queue = Without(ret.pre_wq, ret.out)

(* C15, amended: that holds for calls made on the wcroot or on a path that *)
(* is not a directory node; items get ever higher ids and a removed id     *)
(* never comes back.  On a directory node below the wcroot wq_fetch        *)
(* returns id 0 and no item, wq_completed removes nothing and wq_add fails *)
(* with wc_path_not_found, whatever the queue holds.                       *)
C15_WorkQueue ==
  /\ (ret.op = "wq_fetch" /\ ret.err = "ok")
       => /\ work_queue = ret.pre_wq
          /\ IF ret.stub
               THEN ret.out.id = 0 /\ ret.out.work_item = NULL
               ELSE Lowest(ret.pre_wq, ret.out)
  /\ (ret.op = "wq_completed" /\ ret.err = "ok")
       => work_queue = IF ret.stub THEN ret.pre_wq
                                   ELSE Without(ret.pre_wq, ret.out)
  /\ (ret.op = "wq_add" /\ ret.err = "ok")
       => (~ret.stub /\ Appended(ret.pre_wq, work_queue, ret.out))
  /\ (ret.op = "wq_add" /\ ret.resolved = "ok" /\ ret.stub)
       => (ret.err = "wc_path_not_found" /\ work_queue = ret.pre_wq)
  /\ ret.removed \cap DOMAIN work_queue = {}

(* A fetch from a queue of two items after an earlier item was completed.  *)
C15_Witness ==
  /\ ret.op = "wq_fetch"
  /\ ret.err = "ok"
  /\ ~ret.stub
  /\ Cardinality(DOMAIN ret.pre_wq) = 2
  /\ ret.removed # {}
  /\ ret.out.id = 2

(* Properties of opening a wcroot (specification SpecQueue).               *)

Supported(fmt) == fmt >= 4 /\ fmt <= SVN_WC__VERSION

NoWcrootAdded ==
  \A d \in DOMAIN dir_data :
    dir_data[d].wcroot => (d \in DOMAIN ret.pre_dd /\ ret.pre_dd[d].wcroot)

Opening == ret.op \in {"wq_add", "wq_fetch", "wq_completed"} /\ ret.opened

-----------------------------------------------------------------------------
(* The pristine store.  pristine_files are the files in the pristine       *)
(* directory of the wcroot (named by hex digest), tempfiles the files a    *)
(* caller has written to the directory pristine_get_tempdir told it, with  *)
(* their sizes.                                                            *)

TempNames == {"t1", "t2"}
AnyChecksum == {"c1", "c2", "m1"}

(* The macro is defined to compare the kind with SHA-1 and then redefined  *)
(* as ((void)0): it lets every checksum pass.                              *)
VERIFY_CHECKSUM_KIND(checksum) == "ok"

(* An install that writes the row first and moves the file afterwards.     *)
insert_before_rename(pr, files, temps, tempfile_abspath, checksum, done) ==
  IF tempfile_abspath \notin DOMAIN temps
    THEN [err |-> "enoent", pristine |-> pr, pristine_files |-> files,
          tempfiles |-> temps]
    ELSE [err |-> IF done = 2 THEN "ok" ELSE "interrupted",
          pristine |->
            IF done >= 1
              THEN pristine_install(pr, checksum, temps[tempfile_abspath])
              ELSE pr,
          pristine_files |->
            IF done = 2 THEN files \cup {svn_checksum_to_cstring(checksum)}
                        ELSE files,
          tempfiles |->
            IF done = 2
              THEN [t \in DOMAIN temps \ {tempfile_abspath} |-> temps[t]]
              ELSE temps]

(* svn_io_file_rename, svn_io_stat of the renamed file, then               *)
(* STMT_INSERT_PRISTINE; the process stops after done of the two steps.    *)
svn_wc__db_pristine_install(pr, files, temps, tempfile_abspath, checksum, done) ==
  IF VERIFY_CHECKSUM_KIND(checksum) # "ok"
    THEN [err |-> "bad_checksum_kind", pristine |-> pr,
          pristine_files |-> files, tempfiles |-> temps]
  ELSE IF tempfile_abspath \notin DOMAIN temps
    THEN [err |-> "enoent", pristine |-> pr, pristine_files |-> files,
          tempfiles |-> temps]
  ELSE IF done = 0
    THEN [err |-> "interrupted", pristine |-> pr, pristine_files |-> files,
          tempfiles |-> temps]
  ELSE
    LET size == temps[tempfile_abspath]
        renamed == files \cup {svn_checksum_to_cstring(checksum)}
        left == [t \in DOMAIN temps \ {tempfile_abspath} |-> temps[t]]
    IN IF done = 1
         THEN [err |-> "interrupted", pristine |-> pr,
               pristine_files |-> renamed, tempfiles |-> left]
         ELSE [err |-> "ok",
               pristine |-> pristine_install(pr, checksum, size),
               pristine_files |-> renamed, tempfiles |-> left]

(* svn_stream_open_readonly on the file named by the digest.               *)
svn_wc__db_pristine_read(files, checksum) ==
  IF VERIFY_CHECKSUM_KIND(checksum) # "ok"
    THEN [err |-> "bad_checksum_kind", contents |-> NULL]
  ELSE IF svn_checksum_to_cstring(checksum) \in files
    THEN [err |-> "ok", contents |-> svn_checksum_to_cstring(checksum)]
    ELSE [err |-> "enoent", contents |-> NULL]

InitPristine ==
  /\ FreshTables
  /\ dir_data = NoHandles
  /\ ret = [op |-> "open", path |-> <<>>, err |-> "ok"]
  /\ nops = 0
  /\ QuietSession

PristineReturned(op, err, checksum, out) ==
  ret' = [op |-> op, path |-> <<>>, err |-> err, checksum |-> checksum,
          out |-> out, pre_pristine |-> pristine,
          pre_files |-> pristine_files, pre_temps |-> tempfiles]

(* The caller writes new text to a file in the temporary directory.        *)
PristineGetTempdir(name, size) ==
  LET r == get_statement_for_path(dir_data, <<>>, format, engine, work_queue)
  IN /\ name \notin DOMAIN tempfiles
     /\ dir_data' = r.dir_data
     /\ tempfiles' = IF r.err = "ok" THEN (name :> size) @@ tempfiles
                                     ELSE tempfiles
     /\ PristineReturned("pristine_get_tempdir", r.err, NULL, name)
     /\ UNCHANGED <<db_vars, nops, lock_vars, wq_vars, open_vars,
                    pristine_files, aux_vars>>

PristineInstallFile(tempfile, checksum, done) ==
  LET r == get_statement_for_path(dir_data, <<>>, format, engine, work_queue)
      i == IF r.err = "ok"
             THEN svn_wc__db_pristine_install(pristine, pristine_files,
                                              tempfiles, tempfile, checksum,
                                              done)
             ELSE [err |-> r.err, pristine |-> pristine,
                   pristine_files |-> pristine_files,
                   tempfiles |-> tempfiles]
  IN /\ dir_data' = r.dir_data
     /\ pristine' = i.pristine
     /\ pristine_files' = i.pristine_files
     /\ tempfiles' = i.tempfiles
     /\ PristineReturned("pristine_install", i.err, checksum, tempfile)
     /\ UNCHANGED <<base_node, working_node, actual_node, repository, nops,
                    lock_vars, wq_vars, open_vars, aux_vars>>

PristineRead(checksum) ==
  LET r == get_statement_for_path(dir_data, <<>>, format, engine, work_queue)
      c == svn_wc__db_pristine_read(pristine_files, checksum)
  IN /\ dir_data' = r.dir_data
     /\ PristineReturned("pristine_read",
                         IF r.err = "ok" THEN c.err ELSE r.err, checksum,
                         c.contents)
     /\ UNCHANGED <<db_vars, nops, lock_vars, wq_vars, open_vars, file_vars, aux_vars>>

NextPristine ==
  \/ \E name \in TempNames, size \in Sizes : PristineGetTempdir(name, size)
  \/ \E tempfile \in TempNames, checksum \in AnyChecksum, done \in 0..2 :
       PristineInstallFile(tempfile, checksum, done)
  \/ \E checksum \in AnyChecksum : PristineRead(checksum)

SpecPristine == InitPristine /\ [][NextPristine]_vars

(* C18: in every state, also the one an interrupted pristine_install       *)
(* leaves behind, every row of the pristine table has its file in the      *)
(* pristine directory.                                                     *)
C18_RowHasFile ==
  \A text \in DOMAIN pristine :
    svn_checksum_to_cstring(column_checksum(text)) \in pristine_files

(* An install interrupted between the rename and the insert: the file is   *)
(* there, the row is not.                                                  *)
C18_Witness ==
  /\ ret.op = "pristine_install"
  /\ ret.err = "interrupted"
  /\ svn_checksum_to_cstring(ret.checksum) \in pristine_files
  /\ svn_checksum_to_cstring(ret.checksum) \notin ret.pre_files
  /\ bind_checksum(ret.checksum) \notin DOMAIN pristine

(* C19: pristine_read and pristine_install called with a checksum that is  *)
(* not SHA-1 fail with bad_checksum_kind, and no file is renamed or opened *)
(* and no row inserted.                                                    *)
C19_BadChecksumKind ==
  (ret.op \in {"pristine_install", "pristine_read"}
   /\ ret.err # "interrupted"
   /\ checksum_kind(ret.checksum) # "sha1")
    => /\ ret.err = "bad_checksum_kind"
       /\ pristine = ret.pre_pristine
       /\ pristine_files = ret.pre_files
       /\ tempfiles = ret.pre_temps

-----------------------------------------------------------------------------
(* Scans of the WORKING tree.  WORKING rows are written by the entries     *)
(* code through the database handle; the rows scanned here carry the       *)
(* copyfrom and move columns next to the columns of working_row.           *)

ScanPaths == Paths \cup {<<"a", "b", "c">>}
MovedTo == <<"m">>
CopyRepos == 2
SecondRepository == (2 :> [root |-> "http://y/", uuid |-> "u9"])

scan_row(parent, presence, copyfrom_repos_id, moved_here, moved_to) ==
  [parent_relpath |-> parent, presence |-> presence, kind |-> "dir",
   checksum |-> NULL, translated_size |-> SqlNullInt,
   changed_author |-> NULL, depth |-> "infinity", properties |-> NULL,
   copyfrom_repos_id |-> copyfrom_repos_id,
   copyfrom_repos_path |->
     IF copyfrom_repos_id = SqlNullInt THEN SqlNullPath ELSE <<"from">>,
   copyfrom_revnum |->
     IF copyfrom_repos_id = SqlNullInt THEN SqlNullInt ELSE 1,
   moved_here |-> moved_here, moved_to |-> moved_to]

no_addition(err) ==
  [err |-> err, status |-> NULL, op_root |-> SqlNullPath,
   repos_relpath |-> SqlNullPath, repos_root_url |-> NULL, repos_uuid |-> NULL,
   original_repos_relpath |-> SqlNullPath, original_root_url |-> NULL,
   original_uuid |-> NULL, original_revision |-> SVN_INVALID_REVNUM]

(* svn_wc__db_scan_base_repos on the node where the WORKING tree ended.    *)
scan_base_repos(db, repos, local_relpath) ==
  LET s == scan_upwards_for_repos(db, local_relpath)
      info == fetch_repos_info(repos, s.repos_id)
  IN IF s.err # "ok"
       THEN [err |-> s.err, repos_relpath |-> SqlNullPath, repos_root_url |-> NULL,
             repos_uuid |-> NULL]
       ELSE [err |-> info.err, repos_relpath |-> s.repos_relpath,
             repos_root_url |-> info.repos_root_url,
             repos_uuid |-> info.repos_uuid]

(* A scan that joins the stripped segments behind the ones found later.    *)
build_relpath_reversed(current, build_relpath) ==
  build_relpath \o <<svn_relpath_basename(current)>>

(* build_relpath = svn_relpath_join(basename(current), build_relpath).     *)
build_relpath_of(current, build_relpath) ==
  <<svn_relpath_basename(current)>> \o build_relpath

(* The loop of svn_wc__db_scan_addition with every OUT parameter asked     *)
(* for: current is the node looked at, child the one left before it, out   *)
(* the values gathered so far and found_info whether a copy was seen.      *)
RECURSIVE scan_addition_loop(_, _, _, _, _, _, _, _)
scan_addition_loop(db, repos, local_relpath, current, child, build_relpath, found_info, out) ==
  IF ~have(db.working, current)
    THEN IF current = local_relpath
           THEN no_addition("wc_path_not_found")
           ELSE LET b == scan_base_repos(db, repos, current)
                IN IF b.err # "ok"
                     THEN no_addition(b.err)
                     ELSE [out EXCEPT
                             !.op_root = IF out.op_root = SqlNullPath
                                           THEN child ELSE out.op_root,
                             !.repos_relpath =
                               b.repos_relpath \o build_relpath,
                             !.repos_root_url = b.repos_root_url,
                             !.repos_uuid = b.repos_uuid]
    ELSE
      LET row == db.working[current]
          presence_is_normal == row.presence = "normal"
          started == IF current = local_relpath
                       THEN [out EXCEPT !.status = "added"] ELSE out
          copy == ~found_info /\ presence_is_normal
                    /\ row.copyfrom_repos_id # SqlNullInt
          info == fetch_repos_info(repos, row.copyfrom_repos_id)
          seen == IF copy
                    THEN [started EXCEPT
                            !.status = IF row.moved_here
                                         THEN "moved_here" ELSE "copied",
                            !.op_root = current,
                            !.original_repos_relpath = row.copyfrom_repos_path,
                            !.original_root_url = info.repos_root_url,
                            !.original_uuid = info.repos_uuid,
                            !.original_revision = row.copyfrom_revnum]
                    ELSE started
      IN IF current = local_relpath /\ ~presence_is_normal
           THEN no_addition("wc_path_unexpected_status")
         ELSE IF copy /\ info.err # "ok"
           THEN no_addition(info.err)
         ELSE IF current = <<>>
           THEN no_addition("wc_not_working_copy")
         ELSE scan_addition_loop(db, repos, local_relpath,
                                 svn_relpath_dirname(current), current,
                                 build_relpath_of(current, build_relpath),
                                 found_info \/ copy, seen)

svn_wc__db_scan_addition(db, repos, local_relpath) ==
  scan_addition_loop(db, repos, local_relpath, local_relpath, SqlNullPath, <<>>,
                     FALSE, no_addition("ok"))

no_deletion(err) ==
  [err |-> err, base_del_abspath |-> SqlNullPath, base_replaced |-> FALSE,
   moved_to_abspath |-> SqlNullPath, work_del_abspath |-> SqlNullPath]

(* A scan that takes every WORKING row over a normal BASE row for a        *)
(* replacement.                                                            *)
base_replaced_by_any_row(out, have_base, base_presence, work_presence) ==
  out.base_replaced \/ (have_base /\ base_presence = "normal")

(* *base_replaced becomes TRUE at a present BASE node whose WORKING node   *)
(* is anything but base-deleted.                                           *)
base_replaced_of(out, have_base, base_presence, work_presence) ==
  out.base_replaced
    \/ (have_base /\ base_presence = "normal"
          /\ work_presence # "base_deleted")

(* *work_del_abspath is overwritten at every normal parent of a            *)
(* not-present child.                                                      *)
work_del_of(out, work_presence, child, child_presence) ==
  IF work_presence = "normal" /\ child_presence = "not_present"
    THEN child ELSE out.work_del_abspath

(* The loop of svn_wc__db_scan_deletion with every OUT parameter asked     *)
(* for.  STMT_SELECT_DELETION_INFO yields the WORKING row with the         *)
(* presence of the BASE row of the same path, NULL when there is none.     *)
RECURSIVE scan_deletion_loop(_, _, _, _, _, _, _, _)
scan_deletion_loop(db, local_relpath, current, child, child_presence, child_has_base, found_moved_to, out) ==
  IF ~have(db.working, current)
    THEN IF current = local_relpath
           THEN no_deletion("wc_path_not_found")
         ELSE IF child_presence = "not_present"
           THEN no_deletion("assertion_fail")
         ELSE [out EXCEPT !.base_del_abspath =
                 IF child_has_base /\ out.base_del_abspath = SqlNullPath
                   THEN child ELSE out.base_del_abspath]
    ELSE
      LET row == db.working[current]
          work_presence == presence_status(row.presence)
          have_base == have(db.base, current)
          base_presence == IF have_base
                             THEN presence_status(db.base[current].presence)
                             ELSE NULL
          moved == ~found_moved_to /\ row.moved_to # SqlNullPath
          seen == [out EXCEPT
                     !.base_replaced =
                       base_replaced_of(out, have_base, base_presence,
                                        work_presence),
                     !.base_del_abspath =
                       IF moved THEN current ELSE out.base_del_abspath,
                     !.moved_to_abspath =
                       IF moved THEN row.moved_to ELSE out.moved_to_abspath,
                     !.work_del_abspath =
                       work_del_of(out, work_presence, child, child_presence)]
      IN IF current = local_relpath
            /\ work_presence \notin {"not_present", "base_deleted"}
           THEN no_deletion("wc_path_unexpected_status")
         ELSE IF work_presence \notin {"normal", "not_present", "base_deleted"}
           THEN no_deletion("assertion_fail")
         ELSE IF have_base /\ base_presence \notin {"normal", "not_present"}
           THEN no_deletion("assertion_fail")
         ELSE IF moved /\ ~have_base
           THEN no_deletion("assertion_fail")
         ELSE IF current = <<>>
           THEN no_deletion("wc_not_working_copy")
         ELSE scan_deletion_loop(db, local_relpath,
                                 svn_relpath_dirname(current), current,
                                 work_presence, have_base,
                                 found_moved_to \/ moved, seen)

svn_wc__db_scan_deletion(db, local_relpath) ==
  scan_deletion_loop(db, local_relpath, local_relpath, SqlNullPath,
                     "base_deleted",
                     FALSE, FALSE, no_deletion("ok"))

(* The working copies scanned.  Every node below the root has no BASE row, *)
(* a normal one or a not-present one, and no WORKING row or one of         *)
(* ScanWorkingRows.  The rows obey what the scans expect of the database   *)
(* (wc_db.c:4578-4582, 4620-4634, 4652-4653): a row has a parent row, a    *)
(* base-deleted or moved-away node has a BASE row, a not-present node      *)
(* lies inside a WORKING tree, the nodes below a deleted directory are     *)
(* deleted, the presence of a WORKING row is normal, not-present or        *)
(* base-deleted (wc_db.c:4608-4609), and the root of the working copy is   *)
(* not itself scheduled.                                                   *)
ScanNodes == ScanPaths \ {<<>>}

ScanWorkingRows(p) ==
  LET d == svn_relpath_dirname(p)
  IN {scan_row(d, "normal", SqlNullInt, FALSE, SqlNullPath),
      scan_row(d, "normal", CopyRepos, FALSE, SqlNullPath),
      scan_row(d, "normal", CopyRepos, TRUE, SqlNullPath),
      scan_row(d, "not-present", SqlNullInt, FALSE, SqlNullPath),
      scan_row(d, "base-deleted", SqlNullInt, FALSE, SqlNullPath),
      scan_row(d, "base-deleted", SqlNullInt, FALSE, MovedTo)}

ScanBaseRow(p, status) ==
  insert_base_node(svn_wc__db_init(1, repos_path(<<>>), 0),
                   ibb(p, 1, repos_path(p), status, "dir", 1)).base[p]

Deleted(row) == row.presence \in {"not-present", "base-deleted"}

ScanValid(db) ==
  \A p \in ScanNodes :
    LET d == svn_relpath_dirname(p)
    IN /\ have(db.base, p) => have(db.base, d)
       /\ have(db.working, p) =>
            /\ have(db.base, d) \/ have(db.working, d)
            /\ db.working[p].presence = "base-deleted" => have(db.base, p)
            /\ db.working[p].moved_to # SqlNullPath => have(db.base, p)
            /\ db.working[p].presence = "not-present" => have(db.working, d)
            /\ (have(db.working, d) /\ Deleted(db.working[d]))
                 => Deleted(db.working[p])
       /\ (have(db.base, p) /\ have(db.working, d) /\ Deleted(db.working[d]))
            => have(db.working, p)

ScanTables ==
  LET root == svn_wc__db_init(1, repos_path(<<>>), 0)
      bases == {b \in UNION {[S -> {"normal", "not_present"}] :
                               S \in SUBSET ScanNodes} : TRUE}
      works == UNION {{w \in [S -> UNION {ScanWorkingRows(p) : p \in S}] :
                         \A p \in S : w[p] \in ScanWorkingRows(p)} :
                      S \in SUBSET ScanNodes}
  IN {db \in {[base |-> [p \in DOMAIN b \cup {<<>>} |->
                           IF p = <<>> THEN root.base[<<>>]
                                       ELSE ScanBaseRow(p, b[p])],
               working |-> w, actual |-> EmptyTable] :
                b \in bases, w \in works} : ScanValid(db)}

InitScan ==
  /\ \E db \in ScanTables :
       /\ base_node = db.base
       /\ working_node = db.working
       /\ actual_node = db.actual
  /\ pristine = EmptyTable
  /\ repository = FirstRepository @@ SecondRepository
  /\ dir_data = NoHandles
  /\ ret = [op |-> "open", path |-> <<>>, err |-> "ok"]
  /\ nops = 0
  /\ QuietSession

ScanReturned(op, P, err, out) ==
  ret' = [op |-> op, path |-> P, err |-> err, out |-> out]

ScanAddition(P) ==
  LET r == get_statement_for_path(dir_data, P, format, engine, work_queue)
      out == svn_wc__db_scan_addition(DB, repository, P)
  IN /\ dir_data' = r.dir_data
     /\ ScanReturned("scan_addition", P,
                     IF r.err = "ok" THEN out.err ELSE r.err, out)
     /\ UNCHANGED <<db_vars, nops, lock_vars, wq_vars, open_vars, file_vars, aux_vars>>

ScanDeletion(P) ==
  LET r == get_statement_for_path(dir_data, P, format, engine, work_queue)
      out == svn_wc__db_scan_deletion(DB, P)
  IN /\ dir_data' = r.dir_data
     /\ ScanReturned("scan_deletion", P,
                     IF r.err = "ok" THEN out.err ELSE r.err, out)
     /\ UNCHANGED <<db_vars, nops, lock_vars, wq_vars, open_vars, file_vars, aux_vars>>

NextScan ==
  \/ \E P \in ScanPaths : ScanAddition(P)
  \/ \E P \in ScanPaths : ScanDeletion(P)

SpecScan == InitScan /\ [][NextScan]_vars

(* The contiguous chain of WORKING rows from p upwards, and its top.       *)
WorkingChain(db, p) ==
  {q \in ScanPaths :
     /\ IsAncestorOrSelf(q, p)
     /\ \A m \in ScanPaths :
          (IsAncestorOrSelf(q, m) /\ IsAncestorOrSelf(m, p))
            => have(db.working, m)}

ChainTop(db, p) ==
  CHOOSE q \in WorkingChain(db, p) :
    \A m \in WorkingChain(db, p) : Len(q) <= Len(m)

Nearest(nodes) == CHOOSE q \in nodes : \A m \in nodes : Len(q) >= Len(m)

Copies(db, p) ==
  {q \in WorkingChain(db, p) : db.working[q].copyfrom_repos_id # SqlNullInt}

Topmost(nodes) == CHOOSE q \in nodes : \A m \in nodes : Len(q) <= Len(m)

MovedAway(db, p) ==
  {q \in WorkingChain(db, p) : db.working[q].moved_to # SqlNullPath}

Shadowers(db, p) == {q \in WorkingChain(db, p) : have(db.base, q)}

DeletedUnderNormal(db, p) ==
  {q \in WorkingChain(db, p) :
     /\ db.working[q].presence = "not-present"
     /\ svn_relpath_dirname(q) \in WorkingChain(db, p)
     /\ db.working[svn_relpath_dirname(q)].presence = "normal"}

-----------------------------------------------------------------------------
(* Relocation.  The working copy has BASE rows for the root, for           *)
(* directories whose names differ at the LIKE characters, and for nodes    *)
(* below them; an added directory "n" has WORKING rows only.  Repository   *)
(* rows are added by repos_ensure, LOCK rows by lock_add.                  *)

MaxCalls == 3   \* calls per relocation session

Urls == {RootUrl, "https://x/"}
Uuids == {RootUuid, "u2"}

LIKE_ESCAPE_CHAR == "#"

(* The characters of a path segment, and the text of a relpath: its        *)
(* segments joined by "/".                                                 *)
Spelling(name) ==
  CASE name = "a_" -> <<"a", "_">>
    [] name = "a%" -> <<"a", "%">>
    [] name = "a#" -> <<"a", "#">>
    [] name = "ab" -> <<"a", "b">>
    [] OTHER -> <<name>>

RECURSIVE relpath_text(_)
relpath_text(p) ==
  IF p = <<>> THEN <<>>
  ELSE IF Len(p) = 1 THEN Spelling(p[1])
  ELSE relpath_text(SubSeq(p, 1, Len(p) - 1)) \o <<"/">>
         \o Spelling(p[Len(p)])

(* An escape that copies the string as it is.                              *)
no_escape(str) == str

RECURSIVE escape_sqlite_like(_)
escape_sqlite_like(str) ==
  IF str = <<>> THEN <<>>
  ELSE IF Head(str) \in {"%", "_", LIKE_ESCAPE_CHAR}
    THEN <<LIKE_ESCAPE_CHAR, Head(str)>> \o escape_sqlite_like(Tail(str))
    ELSE <<Head(str)>> \o escape_sqlite_like(Tail(str))

(* str LIKE pattern ESCAPE '#': "%" stands for any run of characters, "_"  *)
(* for any one character, and the character after "#" for itself.          *)
RECURSIVE sqlite_like(_, _)
sqlite_like(pattern, str) ==
  IF pattern = <<>> THEN str = <<>>
  ELSE IF Head(pattern) = LIKE_ESCAPE_CHAR /\ Len(pattern) >= 2
    THEN /\ str # <<>>
         /\ Head(str) = pattern[2]
         /\ sqlite_like(Tail(Tail(pattern)), Tail(str))
  ELSE IF Head(pattern) = "%"
    THEN \E k \in 0..Len(str) :
           sqlite_like(Tail(pattern), SubSeq(str, k + 1, Len(str)))
  ELSE IF Head(pattern) = "_"
    THEN str # <<>> /\ sqlite_like(Tail(pattern), Tail(str))
  ELSE /\ str # <<>>
       /\ Head(str) = Head(pattern)
       /\ sqlite_like(Tail(pattern), Tail(str))

like_arg(relpath) ==
  IF relpath = <<>>
    THEN <<"%">>
    ELSE escape_sqlite_like(relpath_text(relpath)) \o <<"/", "%">>

(* relpath = ?2 OR relpath LIKE ?3 ESCAPE '#', with ?2 the relpath of the  *)
(* relocated node and ?3 its like_arg.                                     *)
at_or_below(root, p) ==
  \/ relpath_text(p) = relpath_text(root)
  \/ sqlite_like(like_arg(root), relpath_text(p))

(* STMT_UPDATE_LOCK_REPOS_ID: the rows of the old repository at or below   *)
(* repos_relpath move to the new one.                                      *)
moved_locks(lk, rb, new_repos_id) ==
  {k \in DOMAIN lk : k[1] = rb.old_repos_id
                       /\ at_or_below(rb.repos_relpath, k[2])}

update_lock_repos_id(lk, rb, new_repos_id) ==
  LET moved == moved_locks(lk, rb, new_repos_id)
      kept == DOMAIN lk \ moved
      target == {<<new_repos_id, k[2]>> : k \in moved}
  IN [k \in kept \cup target |->
        IF k \in target /\ <<rb.old_repos_id, k[2]>> \in moved
          THEN lk[<<rb.old_repos_id, k[2]>>]
          ELSE lk[k]]

(* The statements of relocate_txn; rb is the relocate_baton.  A LOCK row   *)
(* that would take the key of another row fails the transaction.           *)
relocate_txn(db, repos, lk, rb) ==
  LET new == create_repos_id(repos, rb.repos_root_url, rb.repos_uuid)
      working1 ==
        [p \in DOMAIN db.working |->
           IF at_or_below(rb.local_relpath, p)
              /\ db.working[p].copyfrom_repos_id # SqlNullInt
             THEN [db.working[p] EXCEPT !.copyfrom_repos_id = new.repos_id]
             ELSE db.working[p]]
      base1 ==
        [p \in DOMAIN db.base |->
           IF at_or_below(rb.local_relpath, p)
             THEN [db.base[p] EXCEPT
                     !.dav_cache = bind_properties(NULL),
                     !.repos_id = IF db.base[p].repos_id # SqlNullInt
                                    THEN new.repos_id
                                    ELSE db.base[p].repos_id]
             ELSE db.base[p]]
      clash == /\ rb.have_base_node
               /\ new.repos_id # rb.old_repos_id
               /\ \E k \in moved_locks(lk, rb, new.repos_id) :
                    <<new.repos_id, k[2]>> \in DOMAIN lk
      err == IF clash THEN "sqlite_constraint" ELSE "ok"
      out == svn_sqlite__with_transaction(
               [db |-> db, repository |-> repos, lock |-> lk], err,
               [db |-> IF rb.have_base_node
                         THEN [db EXCEPT !.working = working1,
                                         !.base = base1]
                         ELSE [db EXCEPT !.working = working1],
                repository |-> new.repository,
                lock |-> IF rb.have_base_node
                           THEN update_lock_repos_id(lk, rb, new.repos_id)
                           ELSE lk])
  IN [err |-> err, db |-> out.db, repository |-> out.repository,
      lock |-> out.lock]

(* gather_children: the nodes whose BASE or WORKING row names p as parent. *)
svn_wc__db_read_children(db, p) ==
  {c \in DOMAIN db.base : db.base[c].parent_relpath = p}
    \cup {c \in DOMAIN db.working : db.working[c].parent_relpath = p}

relocated(err, db, repos, lk) ==
  [err |-> err, db |-> db, repository |-> repos, lock |-> lk]

(* The uuid comes from the repository row of the root's BASE row, or from  *)
(* scan_addition when the root has no BASE row.  Unless single_db is set   *)
(* the call is repeated on every child directory.                          *)
RECURSIVE svn_wc__db_global_relocate(_, _, _, _, _, _)
RECURSIVE relocate_children(_, _, _, _, _, _)
relocate_children(db, repos, lk, children, repos_root_url, single_db) ==
  IF children = {}
    THEN relocated("ok", db, repos, lk)
    ELSE LET child == CHOOSE c \in children : TRUE
             info == read_info(db, child)
             done == IF info.err # "ok"
                       THEN relocated(info.err, db, repos, lk)
                     ELSE IF info.kind # "dir"
                       THEN relocated("ok", db, repos, lk)
                       ELSE svn_wc__db_global_relocate(db, repos, lk, child,
                                                       repos_root_url,
                                                       single_db)
         IN IF done.err # "ok"
              THEN done
              ELSE relocate_children(done.db, done.repository, done.lock,
                                     children \ {child}, repos_root_url,
                                     single_db)

svn_wc__db_global_relocate(db, repos, lk, local_relpath, repos_root_url, single_db) ==
  LET have_base_node == have(db.base, local_relpath)
      old_repos_id ==
        IF ~have_base_node THEN 0
        ELSE IF db.base[local_relpath].repos_id = SqlNullInt
          THEN 0 ELSE db.base[local_relpath].repos_id
      info == IF have_base_node
                THEN fetch_repos_info(repos, old_repos_id)
                ELSE svn_wc__db_scan_addition(db, repos, local_relpath)
  IN IF info.err # "ok"
       THEN relocated(info.err, db, repos, lk)
     ELSE
       LET t == relocate_txn(db, repos, lk,
                  [local_relpath |-> local_relpath,
                   repos_relpath |->
                     IF have_base_node
                       THEN db.base[local_relpath].repos_relpath
                       ELSE SqlNullPath,
                   repos_root_url |-> repos_root_url,
                   repos_uuid |-> info.repos_uuid,
                   have_base_node |-> have_base_node,
                   old_repos_id |-> old_repos_id])
       IN IF t.err # "ok"
            THEN relocated(t.err, db, repos, lk)
          ELSE IF single_db
            THEN relocated("ok", t.db, t.repository, t.lock)
            ELSE relocate_children(t.db, t.repository, t.lock,
                                   svn_wc__db_read_children(t.db,
                                                            local_relpath),
                                   repos_root_url, single_db)

(* The handles left by the read_info and the repeated call on each child.  *)
RECURSIVE relocate_handles(_, _, _)
relocate_handles(dd, db, children) ==
  IF children = {}
    THEN dd
    ELSE LET child == CHOOSE c \in children : TRUE
             info == read_info(db, child)
             is_dir == info.err = "ok" /\ info.kind = "dir"
             seen == read_info_handles(dd, db, child)
         IN relocate_handles(
              IF is_dir THEN parse_local_abspath(seen, child) ELSE seen, db,
              (children \ {child})
                \cup (IF is_dir THEN svn_wc__db_read_children(db, child)
                                ELSE {}))

(* svn_wc__db_lock_add and svn_wc__db_lock_remove: the key of the row is   *)
(* what scan_upwards_for_repos finds for the node.                         *)
lock_add(db, lk, local_relpath, token) ==
  LET s == scan_upwards_for_repos(db, local_relpath)
      k == <<s.repos_id, s.repos_relpath>>
  IN IF s.err # "ok" THEN [err |-> s.err, lock |-> lk]
     ELSE IF k \in DOMAIN lk
       THEN [err |-> "sqlite_constraint", lock |-> lk]
       ELSE [err |-> "ok", lock |-> (k :> token) @@ lk]

lock_remove(db, lk, local_relpath) ==
  LET s == scan_upwards_for_repos(db, local_relpath)
      k == <<s.repos_id, s.repos_relpath>>
  IN IF s.err # "ok" THEN [err |-> s.err, lock |-> lk]
     ELSE [err |-> "ok", lock |-> [q \in DOMAIN lk \ {k} |-> lk[q]]]

(* STMT_UPDATE_BASE_DAV_CACHE on the row of local_relpath, if any.         *)
base_set_dav_cache(db, local_relpath, props) ==
  IF have(db.base, local_relpath)
    THEN [db EXCEPT !.base[local_relpath].dav_cache = bind_properties(props)]
    ELSE db

RelocateDirs == {<<>>, <<"a">>, <<"a_">>, <<"a%">>, <<"a#">>, <<"n">>}
RelocateNodes == {<<"a", "b">>, <<"ab", "b">>}

RelocateTables ==
  LET root == svn_wc__db_init(1, repos_path(<<>>), 0)
      dir(db, p) == base_add_directory(db, p, 1, repos_path(p), 1, "h1", {})
      file(db, p) ==
        base_add_file(db, p, 1, repos_path(p), 1, "h1", "c1", 1)
      dirs == dir(dir(dir(dir(dir(root, <<"a">>), <<"a_">>), <<"a%">>),
                      <<"a#">>), <<"ab">>)
      added == (<<"n">> :> scan_row(<<>>, "normal", SqlNullInt, FALSE,
                                    SqlNullPath))
               @@ (<<"n", "b">> :> scan_row(<<"n">>, "normal", 1, FALSE,
                                            SqlNullPath))
               @@ (<<"ab", "b">> :> scan_row(<<"ab">>, "normal", 1, FALSE,
                                             SqlNullPath))
      rows == file(file(dirs, <<"a", "b">>), <<"ab", "b">>)
  IN {[rows EXCEPT !.working = added],
      [base_add_directory(file(dirs, <<"ab", "b">>), <<"a">>, 1,
                          repos_path(<<"a">>), 1, "h1", {"b"})
         EXCEPT !.working = added]}

InitRelocate ==
  /\ \E db \in RelocateTables :
       /\ base_node = db.base
       /\ working_node = db.working
       /\ actual_node = db.actual
  /\ pristine = ("sha1$c1" :> 1)
  /\ repository = FirstRepository
  /\ dir_data = NoHandles
  /\ ret = [op |-> "open", path |-> <<>>, err |-> "ok"]
  /\ nops = 0
  /\ QuietSession

RelocateStart == nops < MaxCalls

RelocateReturned(op, P, err, args) ==
  /\ nops' = nops + 1
  /\ ret' = [op |-> op, path |-> P, err |-> err, args |-> args,
             pre |-> DB, pre_repos |-> repository, pre_lock |-> lock]

ReposEnsure(repos_root_url, repos_uuid) ==
  LET r == get_statement_for_path(dir_data, <<>>, format, engine, work_queue)
      c == create_repos_id(repository, repos_root_url, repos_uuid)
  IN /\ RelocateStart
     /\ dir_data' = r.dir_data
     /\ repository' = IF r.err = "ok" THEN c.repository ELSE repository
     /\ RelocateReturned("repos_ensure", <<>>, r.err,
                         [repos_root_url |-> repos_root_url,
                          repos_uuid |-> repos_uuid])
     /\ UNCHANGED <<base_node, working_node, actual_node, pristine,
                    lock_vars, wq_vars, open_vars, file_vars, aux_vars>>

(* A node of another repository is recorded below "a".                     *)
BaseAddForeignFile(P, repos_root_url, repos_uuid) ==
  LET c == create_repos_id(repository, repos_root_url, repos_uuid)
  IN /\ RelocateStart
     /\ dir_data' = parse_local_abspath(dir_data, P)
     /\ repository' = c.repository
     /\ Apply(base_add_file(DB, P, c.repos_id, repos_path(P), 1, "h1", "c1",
                            1))
     /\ RelocateReturned("base_add_file", P, "ok",
                         [repos_root_url |-> repos_root_url,
                          repos_uuid |-> repos_uuid])
     /\ UNCHANGED <<pristine, lock_vars, wq_vars, open_vars, file_vars, aux_vars>>

BaseSetDavCache(P, props) ==
  LET r == get_statement_for_path(dir_data, P, format, engine, work_queue)
  IN /\ RelocateStart
     /\ dir_data' = r.dir_data
     /\ Apply(IF r.err = "ok" THEN base_set_dav_cache(DB, P, props) ELSE DB)
     /\ RelocateReturned("base_set_dav_cache", P, r.err, [props |-> props])
     /\ UNCHANGED <<pristine, repository, lock_vars, wq_vars, open_vars,
                    file_vars, aux_vars>>

LockAdd(P, token) ==
  LET r == get_statement_for_path(dir_data, P, format, engine, work_queue)
      l == lock_add(DB, lock, P, token)
  IN /\ RelocateStart
     /\ dir_data' = r.dir_data
     /\ lock' = IF r.err = "ok" THEN l.lock ELSE lock
     /\ RelocateReturned("lock_add", P,
                         IF r.err = "ok" THEN l.err ELSE r.err,
                         [token |-> token])
     /\ adm_access' = IF r.err = "ok" /\ l.err = "ok"
                          THEN flush_entries(adm_access, pdh_of(P))
                          ELSE adm_access
     /\ UNCHANGED <<db_vars, lock_vars, wq_vars, open_vars, file_vars>>
     /\ UNCHANGED <<root_vars, sql_vars>>

LockRemove(P) ==
  LET r == get_statement_for_path(dir_data, P, format, engine, work_queue)
      l == lock_remove(DB, lock, P)
  IN /\ RelocateStart
     /\ dir_data' = r.dir_data
     /\ lock' = IF r.err = "ok" THEN l.lock ELSE lock
     /\ RelocateReturned("lock_remove", P,
                         IF r.err = "ok" THEN l.err ELSE r.err, [x |-> 0])
     /\ adm_access' = IF r.err = "ok" /\ l.err = "ok"
                          THEN flush_entries(adm_access, pdh_of(P))
                          ELSE adm_access
     /\ UNCHANGED <<db_vars, lock_vars, wq_vars, open_vars, file_vars>>
     /\ UNCHANGED <<root_vars, sql_vars>>

GlobalRelocate(P, repos_root_url, single_db) ==
  LET r == get_statement_for_path(dir_data, P, format, engine, work_queue)
      g == svn_wc__db_global_relocate(DB, repository, lock, P,
                                      repos_root_url, single_db)
  IN /\ RelocateStart
     /\ dir_data' = IF r.err = "ok" /\ g.err = "ok" /\ ~single_db
                      THEN relocate_handles(r.dir_data, DB,
                                            svn_wc__db_read_children(DB, P))
                      ELSE r.dir_data
     /\ Apply(IF r.err = "ok" THEN g.db ELSE DB)
     /\ repository' = IF r.err = "ok" THEN g.repository ELSE repository
     /\ lock' = IF r.err = "ok" THEN g.lock ELSE lock
     /\ RelocateReturned("global_relocate", P,
                         IF r.err = "ok" THEN g.err ELSE r.err,
                         [repos_root_url |-> repos_root_url,
                          single_db |-> single_db])
     /\ UNCHANGED <<pristine, lock_vars, wq_vars, open_vars, file_vars>>
     /\ UNCHANGED <<adm_access, root_vars, sql_vars>>

NextRelocate ==
  \/ \E url \in Urls, uuid \in Uuids : ReposEnsure(url, uuid)
  \/ \E url \in Urls, uuid \in Uuids :
       BaseAddForeignFile(<<"a", "b">>, url, uuid)
  \/ \E P \in RelocateNodes : BaseSetDavCache(P, "h1")
  \/ \E P \in RelocateNodes : LockAdd(P, "tok")
  \/ \E P \in RelocateNodes : LockRemove(P)
  \/ \E P \in RelocateDirs, url \in Urls, single_db \in BOOLEAN :
       GlobalRelocate(P, url, single_db)

SpecRelocate == InitRelocate /\ [][NextRelocate]_vars

(* The repository a node with a BASE row resolves to: its own repos_id or  *)
(* the one inherited from the nearest ancestor that has one.               *)
ResolvedRepos(db, repos, p) ==
  LET s == scan_upwards_for_repos(db, p)
  IN IF s.err = "ok" THEN fetch_repos_info(repos, s.repos_id)
                     ELSE [err |-> s.err, repos_root_url |-> NULL,
                           repos_uuid |-> NULL]

(* C20: after global_relocate(root, new_root_url) every node at or below   *)
(* root that has a BASE row resolves to a repository with root             *)
(* new_root_url and with the uuid it resolved to before the call, whatever *)
(* rows the repository table held.                                         *)
C20_Relocated ==
  (ret.op = "global_relocate" /\ ret.err = "ok") =>
    \A p \in DOMAIN base_node :
      IsAncestorOrSelf(ret.path, p) =>
        /\ ResolvedRepos(DB, repository, p).repos_root_url
             = ret.args.repos_root_url
        /\ ResolvedRepos(DB, repository, p).repos_uuid
             = ResolvedRepos(ret.pre, ret.pre_repos, p).repos_uuid

(* The columns relocation may rewrite, blanked.                            *)
BaseFrame(row) == [row EXCEPT !.repos_id = 0, !.dav_cache = NULL]
WorkingFrame(row) == [row EXCEPT !.copyfrom_repos_id = 0]

(* The LOCK rows relocation of the node D may rewrite: those of the        *)
(* repository of D's BASE row at or below its repos_relpath.               *)
LocksBelow(pre, lk, D) ==
  IF have(pre.base, D)
    THEN {k \in DOMAIN lk :
            /\ k[1] = pre.base[D].repos_id
            /\ IsAncestorOrSelf(pre.base[D].repos_relpath, k[2])}
    ELSE {}

-----------------------------------------------------------------------------
(* base_add_directory and the placeholder rows of its children.            *)

AddedDirectory == ret.op = "base_add_directory" /\ ret.err = "ok"

AddedChildren == {svn_relpath_join(ret.path, c) : c \in ret.args.children}

DirectoryInstalled ==
  /\ have(base_node, ret.path)
  /\ presence_status(base_node[ret.path].presence) = "normal"
  /\ base_node[ret.path].kind = "dir"
  /\ base_node[ret.path].revnum = ret.args.revision

Placeholder(p) ==
  /\ have(base_node, p)
  /\ presence_status(base_node[p].presence) = "incomplete"
  /\ base_node[p].parent_relpath = ret.path
  /\ base_node[p].revnum = ret.args.revision

OthersKept ==
  \A p \in DOMAIN ret.pre.base \ ({ret.path} \cup AddedChildren) :
    have(base_node, p) /\ base_node[p] = ret.pre.base[p]

-----------------------------------------------------------------------------
(* ACTUAL rows whose tracked columns are all null.                         *)

Trivial(row) ==
  /\ row.properties = NULL
  /\ row.changelist = NULL
  /\ row.conflict_old = NULL
  /\ row.conflict_new = NULL
  /\ row.conflict_working = NULL
  /\ row.prop_reject = NULL
  /\ row.tree_conflict_data = SqlNullTc

ActualWriters ==
  {"op_set_props", "op_set_changelist", "op_set_tree_conflict",
   "op_mark_resolved"}

(* C28: after op_set_props, op_set_changelist, op_set_tree_conflict or     *)
(* op_mark_resolved returns, no ACTUAL row is left whose props,            *)
(* changelist, text-conflict fields, prop_reject and tree_conflict_data    *)
(* are all null.                                                           *)
C28_ActualPruned ==
  ret.op \in ActualWriters =>
    \A p \in DOMAIN actual_node : ~Trivial(actual_node[p])

-----------------------------------------------------------------------------
(* The entries cache of the access batons.  A legacy caller attaches an    *)
(* access baton to the handle of a directory and caches in it the entries  *)
(* it read; the engine drops that cache with flush_entries.                *)

ENTRIES == "entries"             \* a snapshot of the entries of a directory

svn_wc__db_temp_set_access(dd, access, dir) ==
  [dir_data |-> get_or_create_pdh(dd, dir),
   adm_access |-> (dir :> NULL) @@ access]

svn_wc__db_temp_close_access(access, dir) ==
  [d \in DOMAIN access \ {dir} |-> access[d]]

svn_wc__adm_access_set_entries(access, dir, entries) ==
  [access EXCEPT ![dir] = entries]

AccessReturned(op, dir) ==
  /\ Returned(op, dir, "ok", [none |-> TRUE])
  /\ UNCHANGED <<db_vars, nops, lock_vars, wq_vars, open_vars, file_vars,
                 lock, root_vars, sql_vars>>

TempSetAccess(dir) ==
  LET r == svn_wc__db_temp_set_access(dir_data, adm_access, dir)
  IN /\ dir \notin DOMAIN adm_access
     /\ dir_data' = r.dir_data
     /\ adm_access' = r.adm_access
     /\ AccessReturned("temp_set_access", dir)

TempCloseAccess(dir) ==
  /\ dir \in DOMAIN dir_data
  /\ adm_access' = svn_wc__db_temp_close_access(adm_access, dir)
  /\ AccessReturned("temp_close_access", dir)
  /\ UNCHANGED dir_data

(* The caller reads the entries of the directory and keeps them.           *)
AccessSetEntries(dir) ==
  /\ dir \in DOMAIN adm_access
  /\ adm_access[dir] = NULL
  /\ adm_access' = svn_wc__adm_access_set_entries(adm_access, dir, ENTRIES)
  /\ AccessReturned("adm_access_set_entries", dir)
  /\ UNCHANGED dir_data

InitEntries ==
  /\ QueueTables
  /\ dir_data = NoHandles
  /\ ret = [op |-> "open", path |-> <<>>, err |-> "ok"]
  /\ nops = 0
  /\ QuietSession

NextEntries ==
  \/ \E dir \in DiskDirs : TempSetAccess(dir)
  \/ \E dir \in DiskDirs : TempCloseAccess(dir)
  \/ \E dir \in DiskDirs : AccessSetEntries(dir)
  \/ \E P \in Paths : BaseAddDirectory(P, 2, {})
  \/ \E P \in NonRoot : BaseAddFile(P, 2, "c1", 1)
  \/ \E P \in NonRoot : BaseAddSymlink(P, 1)
  \/ \E P \in NonRoot : BaseAddAbsentNode(P, 1, "file", "absent")
  \/ \E P \in Paths : BaseRemove(P)
  \/ \E P \in Paths : OpSetProps(P, "h3")
  \/ \E P \in Paths : OpSetChangelist(P, "cl2")
  \/ \E P \in Paths : OpSetTreeConflict(P, "d1")
  \/ \E P \in Paths : OpMarkResolved(P, TRUE, TRUE, 2)
  \/ \E P \in Paths : GlobalCommit(P, 2, "carol", NULL, FALSE)
  \/ \E P \in Paths : GlobalRelocate(P, "https://x/", FALSE)
  \/ \E P \in Paths : LockAdd(P, "t1")
  \/ \E P \in Paths : LockRemove(P)

SpecEntries == InitEntries /\ [][NextEntries]_vars

Mutators ==
  {"base_add_directory", "base_add_file", "base_add_symlink",
   "base_add_absent_node", "base_remove", "op_set_props",
   "op_set_changelist", "op_set_tree_conflict", "op_mark_resolved",
   "global_commit", "global_relocate", "lock_add", "lock_remove"}

(* The directory whose handle owns the rows the last call wrote.           *)
OwningDir ==
  IF ret.op = "op_set_tree_conflict"
    THEN pdh_of(svn_relpath_dirname(ret.path))
    ELSE pdh_of(ret.path)

(* C27: after a successful mutating call the handle that owns the changed  *)
(* path holds no entries snapshot.                                         *)
C27_EntriesInvalidated ==
  (ret.op \in Mutators /\ ret.err = "ok") =>
    (OwningDir \in DOMAIN adm_access => adm_access[OwningDir] = NULL)

-----------------------------------------------------------------------------
(* The handle cache over a filesystem.  Paths are absolute here, <<>> is   *)
(* the filesystem root.  "w" is a working copy whose directories each      *)
(* carry their own wc.db where they are versioned: "w" itself and "w/d";   *)
(* "w/u" is a directory without metadata; the database of "w" records a    *)
(* file at "d".  "l" is a wc-1 directory, "o" is no working copy.          *)

MaxRoots == 4                    \* wcroot_t objects built per session
MaxSteps == 4                    \* public calls per session

FsDirs ==
  {<<>>, <<"o">>, <<"w">>, <<"w", "u">>, <<"w", "d">>, <<"l">>}
FsFiles == {<<"w", "f">>, <<"l", "f">>}
FsAbsent == {<<"o", "n">>, <<"w", "u", "n">>, <<"w", "u", "n", "m">>}
FsPaths == FsDirs \cup FsFiles \cup FsAbsent

InitialDisk == {<<"w">>, <<"w", "d">>}
LegacyDirs == {<<"l">>}
LegacyFormat == 8
FileInParent == {<<"w", "d">>}   \* STMT_SELECT_BASE_IS_FILE in the parent

NoWcroot == 0                    \* pdh->wcroot == NULL

svn_io_check_special_path(path) ==
  IF path \in FsDirs THEN "dir" ELSE IF path \in FsFiles THEN "file" ELSE "none"

(* svn_dirent_dirname: the root is its own parent.                         *)
svn_dirent_dirname(path) ==
  IF path = <<>> THEN <<>> ELSE SubSeq(path, 1, Len(path) - 1)

svn_dirent_is_ancestor(dir, path) == IsAncestorOrSelf(dir, path)

(* get_old_version: the format a wc-1 entries file declares, else 0.       *)
get_old_version(dir) == IF dir \in LegacyDirs THEN LegacyFormat ELSE 0

(* The cache of one engine: the hash of handles and the wcroots built.     *)
has_wcroot(dd, dir) == dir \in DOMAIN dd /\ dd[dir].wcroot # NoWcroot

(* create_wcroot: the object it allocates; sdb is "open" or NULL.          *)
new_wcroot(abspath, sdb, fmt) ==
  [abspath |-> abspath, sdb |-> sdb, format |-> fmt, closes |-> 0]

NoPdh == 0                       \* pdh->parent == NULL

(* The identity of the next svn_wc__db_pdh_t allocated from the state      *)
(* pool: one that no handle of the cache has or points to.                 *)
next_pdh(dd) ==
  LET used == {NoPdh} \cup {dd[d].id : d \in DOMAIN dd}
                     \cup {dd[d].parent : d \in DOMAIN dd}
  IN 1 + CHOOSE n \in used : \A m \in used : m <= n

(* apr_pcalloc of a handle: no parent, no access baton.                    *)
new_pdh(dd, wcroot) ==
  [wcroot |-> wcroot, id |-> next_pdh(dd), parent |-> NoPdh,
   adm_access |-> NULL]

(* compute_pdh_relpath: svn_dirent_is_child(wcroot->abspath,               *)
(* pdh->local_abspath), "" when it is no child.                            *)
compute_pdh_relpath(roots, wcroot, dir) ==
  IF svn_dirent_is_ancestor(roots[wcroot].abspath, dir)
    THEN SubSeq(dir, Len(roots[wcroot].abspath) + 1, Len(dir))
    ELSE <<>>

(* A climb that gives up where it starts.                                  *)
no_climb(dd, dsk, cur, moved_upwards, always_check) ==
  [stop |-> "root", at |-> cur, climbed |-> {cur}]

RECURSIVE climb(_, _, _, _, _)
(* The while loop of parse_local_abspath: where it stops and why.          *)
climb(dd, dsk, cur, moved_upwards, always_check) ==
  IF cur \in dsk
    THEN [stop |-> "sdb", at |-> cur, climbed |-> {cur}]
    ELSE IF (~moved_upwards \/ always_check) /\ get_old_version(cur) # 0
      THEN [stop |-> "legacy", at |-> cur, climbed |-> {cur}]
      ELSE IF cur = <<>>
        THEN [stop |-> "root", at |-> cur, climbed |-> {cur}]
        ELSE IF has_wcroot(dd, svn_dirent_dirname(cur))
          THEN [stop |-> "found", at |-> svn_dirent_dirname(cur),
                climbed |-> {cur, svn_dirent_dirname(cur)}]
          ELSE LET up == climb(dd, dsk, svn_dirent_dirname(cur), TRUE,
                               always_check)
               IN [up EXCEPT !.climbed = @ \cup {cur}]

(* A fill that stops at the immediate parent.                               *)
fill_nearest(dd, dir, top, id) ==
  LET parent_dir == svn_dirent_dirname(dir)
      dd1 == IF parent_dir \notin DOMAIN dd
               THEN (parent_dir :> new_pdh(dd, id)) @@ dd
               ELSE IF dd[parent_dir].wcroot = NoWcroot
                 THEN [dd EXCEPT ![parent_dir].wcroot = id]
                 ELSE dd
  IN [dd1 EXCEPT ![dir].parent = dd1[parent_dir].id]

RECURSIVE fill_parents(_, _, _, _)
(* The do-while that follows the stash: the handle of every directory      *)
(* above dir up to top is made, or takes the wcroot when it has none, and  *)
(* the child handle is pointed at it.                                      *)
fill_parents(dd, dir, top, id) ==
  LET parent_dir == svn_dirent_dirname(dir)
      dd1 == IF parent_dir \notin DOMAIN dd
               THEN (parent_dir :> new_pdh(dd, id)) @@ dd
               ELSE IF dd[parent_dir].wcroot = NoWcroot
                 THEN [dd EXCEPT ![parent_dir].wcroot = id]
                 ELSE dd
      dd2 == [dd1 EXCEPT ![dir].parent = dd1[parent_dir].id]
  IN IF parent_dir = top \/ parent_dir = dir
       THEN dd2
       ELSE fill_parents(dd2, parent_dir, top, id)

(* The cache c = [dir_data, wcroots] after parse_local_abspath has run for *)
(* local_abspath on the disk dsk, with its error and the directory of the  *)
(* handle it returns.                                                      *)
parse_abspath(c, dsk, local_abspath) ==
  LET dd == c.dir_data
      kind == svn_io_check_special_path(local_abspath)
      dir == IF kind = "dir" THEN local_abspath
                             ELSE svn_dirent_dirname(local_abspath)
      build_relpath == IF kind = "dir"
                         THEN <<>> ELSE <<local_abspath[Len(local_abspath)]>>
      same(pdh) == [err |-> "ok", dir_data |-> dd, wcroots |-> c.wcroots,
                    pdh |-> pdh, climbed |-> {},
                    relpath |-> compute_pdh_relpath(c.wcroots, dd[pdh].wcroot,
                                                    pdh)
                                  \o (IF pdh = local_abspath
                                        THEN <<>> ELSE build_relpath)]
      up == climb(dd, dsk, dir, FALSE, kind = "none")
      id == IF up.stop = "found" THEN dd[up.at].wcroot
                                 ELSE Len(c.wcroots) + 1
      roots1 ==
        CASE up.stop = "sdb" ->
               Append(c.wcroots, new_wcroot(up.at, "open", SVN_WC__VERSION))
          [] up.stop = "legacy" ->
               Append(c.wcroots, new_wcroot(up.at, NULL, LegacyFormat))
          [] OTHER -> c.wcroots
      obstruction_possible == kind = "dir" /\ up.stop = "sdb" /\ up.at = dir
      parent_dir == svn_dirent_dirname(dir)
      open_parent == /\ obstruction_possible
                     /\ ~has_wcroot(dd, parent_dir)
                     /\ parent_dir \in dsk
      roots2 == IF open_parent
                  THEN Append(roots1, new_wcroot(parent_dir, "open",
                                                 SVN_WC__VERSION))
                  ELSE roots1
      mine == IF dir \in DOMAIN dd THEN dd[dir] ELSE new_pdh(dd, NoWcroot)
      parent_pdh == IF parent_dir \in DOMAIN dd
                      THEN [dd[parent_dir] EXCEPT !.wcroot = Len(roots2)]
                      ELSE new_pdh((dir :> mine) @@ dd, Len(roots2))
      dd2 == IF open_parent THEN (parent_dir :> parent_pdh) @@ dd ELSE dd
      filled == [mine EXCEPT !.wcroot = id,
                             !.parent = IF open_parent THEN parent_pdh.id
                                                       ELSE @]
      known == IF dir \in DOMAIN dd THEN (dir :> filled) @@ dd2 ELSE dd2
      have_parent == obstruction_possible /\ has_wcroot(dd2, parent_dir)
      obstructed_file == have_parent /\ dir \in FileInParent
      stashed == (dir :> filled) @@ dd2
  IN IF has_wcroot(dd, local_abspath) THEN same(local_abspath)
     ELSE IF kind # "dir" /\ has_wcroot(dd, dir) THEN same(dir)
     ELSE IF up.stop = "root"
       THEN [err |-> "wc_not_working_copy", dir_data |-> dd,
             wcroots |-> c.wcroots, pdh |-> NULL, climbed |-> up.climbed,
             relpath |-> <<>>]
     ELSE IF have_parent /\ roots2[dd2[parent_dir].wcroot].sdb # "open"
       THEN [err |-> "assertion_fail", dir_data |-> known,
             wcroots |-> roots2, pdh |-> NULL, climbed |-> up.climbed,
             relpath |-> <<>>]
     ELSE IF obstructed_file
       THEN [err |-> "ok", dir_data |-> known,
             wcroots |-> roots2, pdh |-> parent_dir, climbed |-> up.climbed,
             relpath |-> <<dir[Len(dir)]>>]
     ELSE [err |-> "ok",
           dir_data |-> IF up.at # dir
                          THEN fill_parents(stashed, dir, up.at, id)
                          ELSE stashed,
           wcroots |-> roots2, pdh |-> dir, climbed |-> up.climbed,
           relpath |-> compute_pdh_relpath(roots2, id, dir)
                         \o build_relpath]

(* close_wcroot run once for every wcroot of ids: the database is closed   *)
(* and the pointer cleared.                                                *)
close_many_wcroots(roots, ids) ==
  [i \in DOMAIN roots |->
     IF i \in ids
       THEN [roots[i] EXCEPT !.sdb = NULL, !.closes = @ + 1]
       ELSE roots[i]]

(* The hash keyed by abspath keeps one wcroot per abspath: whichever the   *)
(* iteration over dir_data meets last.                                     *)
one_per_abspath(roots, ids) ==
  LET paths == {roots[i].abspath : i \in ids}
  IN {{pick[a] : a \in paths} :
        pick \in {f \in [paths -> ids] :
                    \A a \in paths : roots[f[a]].abspath = a}}

(* The wcroots of the handles that still have an open database.            *)
open_roots(dd, roots, dirs) ==
  {dd[d].wcroot : d \in {e \in dirs : has_wcroot(dd, e)
                                       /\ roots[dd[e].wcroot].sdb # NULL}}

(* svn_wc__db_close: every outcome the order of the hash allows.           *)
svn_wc__db_close(c) ==
  {[err |-> "ok", dir_data |-> NoHandles,
    wcroots |-> close_many_wcroots(c.wcroots, ids)] :
     ids \in one_per_abspath(c.wcroots,
                             open_roots(c.dir_data, c.wcroots,
                                        DOMAIN c.dir_data))}

(* A reset that clears the wcroot of every handle.                         *)
reset_all_formats(c, dir) ==
  [c EXCEPT !.dir_data = [d \in DOMAIN c.dir_data |->
                            [c.dir_data[d] EXCEPT !.wcroot = NoWcroot]]]

svn_wc__db_temp_reset_format(c, dir) ==
  [c EXCEPT !.dir_data =
     IF dir \in DOMAIN c.dir_data
       THEN [c.dir_data EXCEPT ![dir].wcroot = NoWcroot]
       ELSE c.dir_data]

svn_wc__db_temp_get_format(c, dsk, dir) ==
  LET dd == c.dir_data
      stale == has_wcroot(dd, dir) /\ c.wcroots[dd[dir].wcroot].abspath # dir
      c1 == IF stale THEN svn_wc__db_temp_reset_format(c, dir) ELSE c
      p == parse_abspath(c1, dsk, dir)
      at_root == /\ p.pdh = dir
                 /\ p.wcroots[p.dir_data[dir].wcroot].abspath = dir
  IN IF has_wcroot(c1.dir_data, dir)
       THEN [err |-> "ok", format |-> c.wcroots[dd[dir].wcroot].format,
             dir_data |-> dd, wcroots |-> c.wcroots]
       ELSE IF p.err = "wc_not_working_copy" \/ (p.err = "ok" /\ ~at_root)
         THEN [err |-> "wc_missing", format |-> 0,
               dir_data |-> p.dir_data, wcroots |-> p.wcroots]
         ELSE IF p.err # "ok"
           THEN [err |-> p.err, format |-> 0,
                 dir_data |-> p.dir_data, wcroots |-> p.wcroots]
           ELSE [err |-> "ok",
                 format |-> p.wcroots[p.dir_data[dir].wcroot].format,
                 dir_data |-> p.dir_data, wcroots |-> p.wcroots]

(* svn_wc__db_init: a new database in dir, a new handle and a new wcroot   *)
(* that take the place of whatever the hash held for dir.                  *)
db_init_handle(c, dir) ==
  [dir_data |-> (dir :> new_pdh(c.dir_data, Len(c.wcroots) + 1))
                  @@ c.dir_data,
   wcroots |-> Append(c.wcroots, new_wcroot(dir, "open", SVN_WC__VERSION))]

RECURSIVE forget_directory(_, _, _, _, _)
(* The loop of svn_wc__db_temp_forget_directory over the handles todo in   *)
(* every order the hash may give; roots is the hash abspath -> wcroot.     *)
(* svn_wc__db_wclock_remove resolves the directory of each handle again    *)
(* and needs a wcroot of the current format; its error ends the call       *)
(* before any database is closed.                                          *)
forget_directory(c, dsk, D, todo, roots) ==
  IF todo = {}
    THEN {[err |-> "ok", dir_data |-> c.dir_data,
           wcroots |-> close_many_wcroots(c.wcroots,
                                          {roots[a] : a \in DOMAIN roots})]}
    ELSE UNION {UNION {
      LET w == IF p.err = "ok" /\ p.pdh # NULL
                 THEN p.dir_data[p.pdh].wcroot ELSE NoWcroot
          usable_pdh == /\ p.err = "ok"
                        /\ p.wcroots[w].format = SVN_WC__VERSION
                        /\ p.wcroots[w].sdb # NULL
          mine == p.dir_data[d].wcroot
          kept == [e \in DOMAIN p.dir_data \ {d} |-> p.dir_data[e]]
          collect == /\ mine # NoWcroot
                     /\ p.wcroots[mine].sdb # NULL
                     /\ svn_dirent_is_ancestor(D, p.wcroots[mine].abspath)
          new == {e \in DOMAIN kept \ DOMAIN c.dir_data :
                    svn_dirent_is_ancestor(D, e)}
      IN IF ~usable_pdh
           THEN {[err |-> IF p.err = "ok" THEN "assertion_fail" ELSE p.err,
                  dir_data |-> p.dir_data, wcroots |-> p.wcroots]}
           ELSE UNION {forget_directory(c1, dsk, D, (todo \ {d}) \cup seen,
                                        roots1) :
                       seen \in SUBSET new,
                       c1 \in {[dir_data |-> kept, wcroots |-> p.wcroots]},
                       roots1 \in {IF collect
                                     THEN (p.wcroots[mine].abspath :> mine)
                                          @@ roots
                                     ELSE roots}}
      : p \in {parse_abspath(c, dsk, d)}} : d \in todo}

svn_wc__db_temp_forget_directory(c, dsk, D) ==
  forget_directory(c, dsk, D,
                   {d \in DOMAIN c.dir_data : svn_dirent_is_ancestor(D, d)},
                   <<>>)

Cache == [dir_data |-> dir_data, wcroots |-> wcroots]

(* A session on the working copy of QueueTables with no handle cached; the *)
(* engine neither upgrades nor looks at the work queue.                    *)
InitCache ==
  /\ QueueTables
  /\ dir_data = NoHandles
  /\ wcroots = <<>>
  /\ disk = InitialDisk
  /\ calls = <<>>
  /\ stepped = {}
  /\ lock = EmptyTable
  /\ adm_access = EmptyTable
  /\ wc_lock = {}
  /\ locked = {}
  /\ peer = [dir_data |-> NoHandles, locked |-> {}]
  /\ work_queue = EmptyTable
  /\ sqlite_sequence = 0
  /\ format = SVN_WC__VERSION
  /\ engine = [auto_upgrade |-> FALSE, enforce_empty_wq |-> FALSE]
  /\ pristine_files = {svn_checksum_to_cstring("c1")}
  /\ tempfiles = EmptyTable
  /\ ret = [op |-> "open", path |-> <<>>, err |-> "ok", climbed |-> {},
            pre_dd |-> NoHandles, pre_roots |-> <<>>]
  /\ nops = 0

CacheStart == nops < MaxSteps

(* The cache after a call, and what the call was.                          *)
CacheReturned(op, P, r, climbed) ==
  /\ Len(r.wcroots) <= MaxRoots
  /\ dir_data' = r.dir_data
  /\ wcroots' = r.wcroots
  /\ ret' = [op |-> op, path |-> P, err |-> r.err, climbed |-> climbed,
             pre_dd |-> dir_data, pre_roots |-> wcroots,
             found |-> IF op = "parse_local_abspath"
                         THEN <<r.pdh, r.relpath>> ELSE <<>>]
  /\ nops' = nops + 1
  /\ UNCHANGED <<db_vars, lock_vars, wq_vars, open_vars, file_vars, lock,
                 adm_access, sql_vars>>

(* Any public call, as far as it resolves its path.                        *)
ParsePath(P) ==
  LET r == parse_abspath(Cache, disk, P)
  IN /\ CacheStart
     /\ CacheReturned("parse_local_abspath", P, r, r.climbed)
     /\ UNCHANGED disk

TempGetFormat(dir) ==
  /\ CacheStart
  /\ CacheReturned("temp_get_format", dir,
                   svn_wc__db_temp_get_format(Cache, disk, dir), {})
  /\ UNCHANGED disk

TempResetFormat(dir) ==
  LET r == svn_wc__db_temp_reset_format(Cache, dir)
  IN /\ CacheStart
     /\ CacheReturned("temp_reset_format", dir,
                      [err |-> "ok", dir_data |-> r.dir_data,
                       wcroots |-> r.wcroots], {})
     /\ UNCHANGED disk

TempForgetDirectory(dir) ==
  /\ CacheStart
  /\ \E r \in svn_wc__db_temp_forget_directory(Cache, disk, dir) :
       CacheReturned("temp_forget_directory", dir, r, {})
  /\ UNCHANGED disk

DbClose ==
  /\ CacheStart
  /\ \E r \in svn_wc__db_close(Cache) : CacheReturned("close", <<>>, r, {})
  /\ UNCHANGED disk

(* svn_wc__db_temp_set_access on the cache: get_or_create_pdh makes the    *)
(* handle when there is none, without a wcroot, and the baton is stored.   *)
cache_set_access(c, dir) ==
  LET dd == IF dir \in DOMAIN c.dir_data
              THEN c.dir_data
              ELSE (dir :> new_pdh(c.dir_data, NoWcroot)) @@ c.dir_data
  IN [err |-> "ok", dir_data |-> [dd EXCEPT ![dir].adm_access = "baton"],
      wcroots |-> c.wcroots]

(* The caller stores a baton only where there is none.                     *)
CacheSetAccess(dir) ==
  /\ CacheStart
  /\ dir \in DOMAIN dir_data => dir_data[dir].adm_access = NULL
  /\ CacheReturned("temp_set_access", dir, cache_set_access(Cache, dir), {})
  /\ UNCHANGED disk

(* The rows of the new database are those of svn_wc__db_init; they are not *)
(* the rows of "w" and are not followed here.                              *)
DbInit(dir) ==
  LET r == db_init_handle(Cache, dir)
  IN /\ CacheStart
     /\ dir \notin disk
     /\ CacheReturned("init", dir,
                      [err |-> "ok", dir_data |-> r.dir_data,
                       wcroots |-> r.wcroots], {})
     /\ disk' = disk \cup {dir}

NextCache ==
  \/ \E P \in FsPaths : ParsePath(P)
  \/ \E dir \in FsDirs \ {<<>>} : TempGetFormat(dir)
  \/ \E dir \in FsDirs \ {<<>>} : TempResetFormat(dir)
  \/ \E dir \in FsDirs \ {<<>>} : TempForgetDirectory(dir)
  \/ DbClose
  \/ \E dir \in {<<"o">>, <<"w", "u">>} : DbInit(dir)
  \/ \E dir \in FsDirs \ {<<>>} : CacheSetAccess(dir)

SpecCache == InitCache /\ [][NextCache]_vars

(* Sessions of path resolutions, temp_forget_directory and close alone.    *)
NextLifecycle ==
  \/ \E P \in FsPaths : ParsePath(P)
  \/ \E dir \in FsDirs \ {<<>>} : TempForgetDirectory(dir)
  \/ DbClose

SpecLifecycle == InitCache /\ [][NextLifecycle]_vars

(* The directory a resolution starts from and the chain up to the root.    *)
StartDir(path) ==
  IF svn_io_check_special_path(path) = "dir"
    THEN path ELSE svn_dirent_dirname(path)

Chain(dir) == {SubSeq(dir, 1, n) : n \in 0..Len(dir)}

NothingAbove(dd, dsk, path) ==
  /\ ~has_wcroot(dd, path)
  /\ \A d \in Chain(StartDir(path)) :
       /\ d \notin dsk
       /\ get_old_version(d) = 0
       /\ ~has_wcroot(dd, d)

(* C25: a resolution climbs through the strict parents of its directory,   *)
(* one after the other; it fails with wc_not_working_copy exactly when no  *)
(* directory up to the filesystem root has a wc.db, a legacy marker or a   *)
(* cached handle with a wcroot, and then the cache is as it was, with no   *)
(* wcroot on the path asked for or on a directory climbed through.         *)
C25_NotWorkingCopy ==
  ret.op = "parse_local_abspath" =>
    /\ ret.climbed \subseteq Chain(StartDir(ret.path))
    /\ \A d \in ret.climbed :
         d = StartDir(ret.path) \/ svn_dirent_dirname(
           CHOOSE e \in ret.climbed : Len(e) = Len(d) + 1) = d
    /\ ret.err = "wc_not_working_copy"
         <=> NothingAbove(ret.pre_dd, disk, ret.path)
    /\ ret.err = "wc_not_working_copy" =>
         /\ ret.climbed = Chain(StartDir(ret.path))
         /\ dir_data = ret.pre_dd
         /\ wcroots = ret.pre_roots
         /\ \A d \in ret.climbed \cup {ret.path} : ~has_wcroot(dir_data, d)

C25_Witness ==
  /\ ret.op = "parse_local_abspath"
  /\ ret.err = "wc_not_working_copy"
  /\ Cardinality(ret.climbed) >= 2
  /\ \E d \in DOMAIN dir_data : has_wcroot(dir_data, d)

(* The handle of d has the wcroot it had before the last call.             *)
KeptHandle(d) ==
  has_wcroot(dir_data, d) /\ dir_data[d].wcroot = ret.pre_dd[d].wcroot

(* C26, as stated: no call before svn_wc__db_close takes a handle with a   *)
(* wcroot out of the cache or gives it another wcroot.                     *)
C26_NeverEvicted ==
  ret.op # "close" =>
    \A d \in DOMAIN ret.pre_dd : has_wcroot(ret.pre_dd, d) => KeptHandle(d)

(* C26, amended: a handle with a wcroot keeps it through every call except *)
(* temp_forget_directory(D) for the handles at or below D,                 *)
(* temp_reset_format(D), temp_get_format(D) and init(D) for the handle of  *)
(* D itself, and svn_wc__db_close.                                         *)
C26_EvictedOnlyBy ==
  \A d \in DOMAIN ret.pre_dd :
    has_wcroot(ret.pre_dd, d) =>
      \/ KeptHandle(d)
      \/ ret.op = "temp_forget_directory"
           /\ svn_dirent_is_ancestor(ret.path, d)
      \/ ret.op \in {"temp_reset_format", "temp_get_format", "init"}
           /\ d = ret.path
      \/ ret.op = "close"

C26_Witness ==
  /\ ret.op = "temp_forget_directory"
  /\ ret.err = "ok"
  /\ \E d \in DOMAIN ret.pre_dd :
       has_wcroot(ret.pre_dd, d) /\ d \notin DOMAIN dir_data
  /\ \E e \in DOMAIN ret.pre_dd : has_wcroot(ret.pre_dd, e) /\ KeptHandle(e)

ClosedOnce == \A i \in DOMAIN wcroots : wcroots[i].closes <= 1

NoHandleOfClosed ==
  \A d \in DOMAIN dir_data :
    has_wcroot(dir_data, d) => wcroots[dir_data[d].wcroot].closes = 0

AllClosed ==
  /\ dir_data = NoHandles
  /\ \A i \in DOMAIN wcroots : wcroots[i].sdb = NULL
  /\ \A i \in DOMAIN ret.pre_roots :
       ret.pre_roots[i].sdb # NULL => wcroots[i].closes = 1

(* C30: svn_wc__db_close leaves the cache empty and no wcroot with an open *)
(* database; over resolutions, temp_forget_directory and close no database *)
(* is closed twice, and no cached handle has a wcroot whose database was   *)
(* closed.                                                                 *)
C30_Lifecycle ==
  /\ ClosedOnce
  /\ NoHandleOfClosed
  /\ ret.op = "close" => AllClosed

-----------------------------------------------------------------------------
(* Repository location by inheritance.  A BASE row either carries its own  *)
(* repository columns or leaves them null and inherits from the nearest    *)
(* ancestor that has them; the root row always has them.                   *)

inheriting(row) ==
  [row EXCEPT !.repos_id = SqlNullInt, !.repos_relpath = SqlNullPath]

InheritTables ==
  LET root == svn_wc__db_init(1, repos_path(<<>>), 0)
      own == UNION {[S -> BOOLEAN] : S \in SUBSET ScanNodes}
  IN {[base |-> [p \in DOMAIN o \cup {<<>>} |->
                   IF p = <<>> THEN root.base[<<>>]
                   ELSE IF o[p] THEN ScanBaseRow(p, "normal")
                        ELSE inheriting(ScanBaseRow(p, "normal"))],
       working |-> EmptyTable, actual |-> EmptyTable] :
        o \in {f \in own : \A p \in DOMAIN f :
                 svn_relpath_dirname(p) \in DOMAIN f \cup {<<>>}}}

InitRepos ==
  /\ \E db \in InheritTables :
       /\ base_node = db.base
       /\ working_node = db.working
       /\ actual_node = db.actual
  /\ pristine = EmptyTable
  /\ repository = FirstRepository
  /\ dir_data = NoHandles
  /\ ret = [op |-> "open", path |-> <<>>, err |-> "ok"]
  /\ nops = 0
  /\ QuietSession

ScanBaseRepos(P) ==
  LET r == get_statement_for_path(dir_data, P, format, engine, work_queue)
      out == scan_base_repos(DB, repository, P)
  IN /\ RelocateStart
     /\ dir_data' = r.dir_data
     /\ RelocateReturned("scan_base_repos", P,
                         IF r.err = "ok" THEN out.err ELSE r.err, out)
     /\ UNCHANGED <<db_vars, lock_vars, wq_vars, open_vars, file_vars,
                    aux_vars>>

NextRepos ==
  \/ \E P \in ScanPaths : ScanBaseRepos(P)
  \/ \E P \in ScanPaths : LockAdd(P, "tok")
  \/ \E P \in ScanPaths : LockRemove(P)

SpecRepos == InitRepos /\ [][NextRepos]_vars

(* The ancestors-or-self of a path, the path itself included.              *)
Prefixes(p) == {SubSeq(p, 1, n) : n \in 0..Len(p)}

(* The nearest ancestor-or-self row with repository columns.               *)
NearestRepos(base, p) ==
  CHOOSE a \in Prefixes(p) :
    /\ base[a].repos_id # SqlNullInt
    /\ \A b \in Prefixes(p) :
         base[b].repos_id # SqlNullInt => Len(b) <= Len(a)

(* The location the node has by inheritance: the ancestor's repos_relpath  *)
(* followed by the stripped segments in their original order.              *)
Location(base, p) ==
  LET a == NearestRepos(base, p)
  IN <<base[a].repos_id,
       base[a].repos_relpath \o SubSeq(p, Len(a) + 1, Len(p))>>

ClimbDepth == Len(ret.path) - Len(NearestRepos(ret.pre.base, ret.path))

(* C31: scan_upwards_for_repos returns the repos_id of the nearest         *)
(* ancestor-or-self BASE row with repository columns and that row's        *)
(* repos_relpath followed by the stripped segments in their original       *)
(* order, at every climb depth; scan_base_repos returns it, lock_add       *)
(* writes the lock under it and lock_remove deletes the lock under it.     *)
C31_ReposLocation ==
  (ret.op \in {"scan_base_repos", "lock_add", "lock_remove"} /\ ret.err = "ok")
    => LET loc == Location(ret.pre.base, ret.path)
       IN /\ ret.op = "scan_base_repos"
               => ret.args.repos_relpath = loc[2]
          /\ ret.op = "lock_add"
               => /\ loc \in DOMAIN lock
                  /\ DOMAIN lock = DOMAIN ret.pre_lock \cup {loc}
          /\ ret.op = "lock_remove"
               => DOMAIN lock = DOMAIN ret.pre_lock \ {loc}

-----------------------------------------------------------------------------
(* create_repos_id step by step.  Each of its two statements is one step   *)
(* of sqlite; between the SELECT and the INSERT another process may run    *)
(* (wc_db.c:1300-1307).  REPOSITORY.root is UNIQUE in the schema.          *)

Procs == {"p1", "p2"}

Idle == [pc |-> "idle", root |-> NULL, uuid |-> NULL, repos_id |-> SqlNullInt,
         err |-> "ok"]

(* STMT_SELECT_REPOSITORY bound to repos_root_url: the id of the row, or   *)
(* no row.                                                                 *)
select_repository(repos, c) ==
  IF repos_of(repos, c.root) # {}
    THEN [c EXCEPT !.pc = "done",
                   !.repos_id = CHOOSE id \in repos_of(repos, c.root) : TRUE]
    ELSE [c EXCEPT !.pc = "insert"]

(* STMT_INSERT_REPOSITORY through svn_sqlite__insert: the new row and its  *)
(* rowid, or the error of the constraint; the error is returned as it is.  *)
insert_repository(repos, c) ==
  IF repos_of(repos, c.root) # {}
    THEN [call |-> [c EXCEPT !.pc = "done", !.err = "sqlite_constraint"],
          repository |-> repos]
    ELSE [call |-> [c EXCEPT !.pc = "done",
                             !.repos_id = Cardinality(DOMAIN repos) + 1],
          repository |-> ((Cardinality(DOMAIN repos) + 1)
                            :> [root |-> c.root, uuid |-> c.uuid]) @@ repos]

InitRace ==
  /\ \E db \in RelocateTables :
       /\ base_node = db.base
       /\ working_node = db.working
       /\ actual_node = db.actual
  /\ pristine = ("sha1$c1" :> 1)
  /\ repository = FirstRepository
  /\ dir_data = NoHandles
  /\ ret = [op |-> "open", path |-> <<>>, err |-> "ok"]
  /\ nops = 0
  /\ wc_lock = {}
  /\ locked = {}
  /\ peer = [dir_data |-> NoHandles, locked |-> {}]
  /\ work_queue = EmptyTable
  /\ sqlite_sequence = 0
  /\ format = SVN_WC__VERSION
  /\ engine = [auto_upgrade |-> TRUE, enforce_empty_wq |-> TRUE]
  /\ pristine_files = {svn_checksum_to_cstring("c1")}
  /\ tempfiles = EmptyTable
  /\ lock = EmptyTable
  /\ adm_access = EmptyTable
  /\ wcroots = <<>>
  /\ disk = {}
  /\ calls = [p \in Procs |-> Idle]
  /\ stepped = {}

RaceFrame ==
  UNCHANGED <<base_node, working_node, actual_node, pristine, dir_data,
              lock_vars, wq_vars, open_vars, file_vars, lock, adm_access,
              root_vars, stepped>>

(* What a finished call hands back, and the table it found.                *)
RaceReturned(p, c, pre) ==
  ret' = IF c.pc = "done"
           THEN [op |-> "create_repos_id", path |-> <<>>, err |-> c.err,
                 proc |-> p, root |-> c.root, repos_id |-> c.repos_id,
                 pre_repos |-> pre, raced |-> calls[p].pc = "insert"]
           ELSE ret

(* A process enters create_repos_id and runs the SELECT.                   *)
CreateSelect(p, repos_root_url, repos_uuid) ==
  LET c == select_repository(repository,
                             [Idle EXCEPT !.root = repos_root_url,
                                          !.uuid = repos_uuid])
  IN /\ nops < MaxCalls
     /\ calls[p].pc # "insert"
     /\ calls' = [calls EXCEPT ![p] = c]
     /\ nops' = nops + 1
     /\ RaceReturned(p, c, repository)
     /\ UNCHANGED repository
     /\ RaceFrame

(* The process that found no row runs the INSERT.                          *)
CreateInsert(p) ==
  LET r == insert_repository(repository, calls[p])
  IN /\ calls[p].pc = "insert"
     /\ calls' = [calls EXCEPT ![p] = r.call]
     /\ repository' = r.repository
     /\ RaceReturned(p, r.call, repository)
     /\ UNCHANGED nops
     /\ RaceFrame

NextRace ==
  \/ \E p \in Procs, u \in Urls, i \in Uuids : CreateSelect(p, u, i)
  \/ \E p \in Procs : CreateInsert(p)

SpecRace == InitRace /\ [][NextRace]_vars

(* No two rows of REPOSITORY have the same root.                           *)
UniqueRoots ==
  \A i, j \in DOMAIN repository :
    repository[i].root = repository[j].root => i = j

(* A call that found the row of its root returns that id and writes        *)
(* nothing.                                                                *)
ExistingReturned ==
  (ret.op = "create_repos_id" /\ repos_of(ret.pre_repos, ret.root) # {})
    => (ret.err = "ok" => /\ ret.repos_id \in repos_of(ret.pre_repos, ret.root)
                          /\ repository = ret.pre_repos)

(* C32: under any interleaving of create_repos_id calls the repository     *)
(* table never holds two rows with the same root_url, a call for a root    *)
(* that has a row returns that row's id without writing, and every call    *)
(* ends by returning the id of the row of its root, the call that lost     *)
(* the race between its SELECT and its INSERT included.                    *)
C32_SameId ==
  /\ UniqueRoots
  /\ ExistingReturned
  /\ ret.op = "create_repos_id"
       => /\ ret.err = "ok"
          /\ ret.repos_id \in repos_of(repository, ret.root)

-----------------------------------------------------------------------------
(* Prepared statements.  A statement is busy from svn_sqlite__step until   *)
(* svn_sqlite__reset; sqlite refuses to bind a busy statement, and         *)
(* svn_sqlite__bindf returns that error.  The scans are followed here by   *)
(* the statements they leave busy: each operator returns the error of the  *)
(* call and the statements busy when it returns.                           *)

Statements ==
  {"STMT_SELECT_BASE_NODE", "STMT_SELECT_WORKING_NODE",
   "STMT_SELECT_DELETION_INFO", "STMT_SELECT_REPOSITORY_BY_ID"}

stmt_result(err, busy) == [err |-> err, stepped |-> busy]

(* fetch_repos_info: the return for a missing row comes before the reset.  *)
fetch_repos_info_stmt(repos, repos_id, busy) ==
  IF "STMT_SELECT_REPOSITORY_BY_ID" \in busy
    THEN stmt_result("sqlite_misuse", busy)
    ELSE IF fetch_repos_info(repos, repos_id).err # "ok"
      THEN stmt_result(fetch_repos_info(repos, repos_id).err,
                       busy \cup {"STMT_SELECT_REPOSITORY_BY_ID"})
      ELSE stmt_result("ok", busy)

(* scan_upwards_for_repos resets its statement on every return.            *)
scan_base_repos_stmt(db, repos, local_relpath, busy) ==
  IF "STMT_SELECT_BASE_NODE" \in busy
    THEN stmt_result("sqlite_misuse", busy)
    ELSE LET s == scan_upwards_for_repos(db, local_relpath)
         IN IF s.err # "ok"
              THEN stmt_result(s.err, busy)
              ELSE fetch_repos_info_stmt(repos, s.repos_id, busy)

RECURSIVE scan_addition_stmt(_, _, _, _, _, _)
(* svn_wc__db_scan_addition: SVN_ERR around fetch_repos_info returns with  *)
(* STMT_SELECT_WORKING_NODE still stepped.                                 *)
scan_addition_stmt(db, repos, local_relpath, current, found_info, busy) ==
  IF "STMT_SELECT_WORKING_NODE" \in busy
    THEN stmt_result("sqlite_misuse", busy)
  ELSE IF ~have(db.working, current)
    THEN IF current = local_relpath
           THEN stmt_result("wc_path_not_found", busy)
           ELSE scan_base_repos_stmt(db, repos, current, busy)
  ELSE
    LET row == db.working[current]
        copy == ~found_info /\ row.presence = "normal"
                  /\ row.copyfrom_repos_id # SqlNullInt
        info == fetch_repos_info_stmt(repos, row.copyfrom_repos_id, busy)
    IN IF current = local_relpath /\ row.presence # "normal"
         THEN stmt_result("wc_path_unexpected_status", busy)
       ELSE IF copy /\ info.err # "ok"
         THEN stmt_result(info.err,
                          info.stepped \cup {"STMT_SELECT_WORKING_NODE"})
       ELSE IF current = <<>>
         THEN stmt_result("wc_not_working_copy", busy)
       ELSE scan_addition_stmt(db, repos, local_relpath,
                               svn_relpath_dirname(current),
                               found_info \/ copy, busy)

RECURSIVE scan_deletion_stmt(_, _, _, _, _, _)
(* svn_wc__db_scan_deletion: the return for a start node that is not       *)
(* deleted and the assertions on the row come before the reset.            *)
scan_deletion_stmt(db, local_relpath, current, child_presence, found_moved_to, busy) ==
  IF "STMT_SELECT_DELETION_INFO" \in busy
    THEN stmt_result("sqlite_misuse", busy)
  ELSE IF ~have(db.working, current)
    THEN IF current = local_relpath
           THEN stmt_result("wc_path_not_found", busy)
         ELSE IF child_presence = "not_present"
           THEN stmt_result("assertion_fail", busy)
         ELSE stmt_result("ok", busy)
  ELSE
    LET row == db.working[current]
        work_presence == presence_status(row.presence)
        have_base == have(db.base, current)
        base_presence == IF have_base
                           THEN presence_status(db.base[current].presence)
                           ELSE NULL
        moved == ~found_moved_to /\ row.moved_to # SqlNullPath
        left == busy \cup {"STMT_SELECT_DELETION_INFO"}
    IN IF current = local_relpath
          /\ work_presence \notin {"not_present", "base_deleted"}
         THEN stmt_result("wc_path_unexpected_status", left)
       ELSE IF work_presence \notin {"normal", "not_present", "base_deleted"}
         THEN stmt_result("assertion_fail", left)
       ELSE IF have_base /\ base_presence \notin {"normal", "not_present"}
         THEN stmt_result("assertion_fail", left)
       ELSE IF moved /\ ~have_base
         THEN stmt_result("assertion_fail", left)
       ELSE IF current = <<>>
         THEN stmt_result("wc_not_working_copy", busy)
       ELSE scan_deletion_stmt(db, local_relpath,
                               svn_relpath_dirname(current), work_presence,
                               found_moved_to \/ moved, busy)

(* The working copies of the scans whose nodes all have a BASE row, with   *)
(* or without the REPOSITORY row that the copies name.                     *)
StmtTables == {db \in ScanTables : DOMAIN db.base = ScanPaths}

InitStmt ==
  /\ \E db \in StmtTables :
       /\ base_node = db.base
       /\ working_node = db.working
       /\ actual_node = db.actual
  /\ pristine = EmptyTable
  /\ repository \in {FirstRepository, FirstRepository @@ SecondRepository}
  /\ dir_data = NoHandles
  /\ ret = [op |-> "open", path |-> <<>>, err |-> "ok"]
  /\ nops = 0
  /\ QuietSession

(* A call on P that ended with r; unhindered is how it ends when no        *)
(* statement is busy at its start.                                         *)
StmtReturned(op, P, r, unhindered) ==
  LET h == get_statement_for_path(dir_data, P, format, engine, work_queue)
  IN /\ nops' = nops + 1
     /\ dir_data' = h.dir_data
     /\ stepped' = IF h.err = "ok" THEN r.stepped ELSE stepped
     /\ ret' = [op |-> op, path |-> P,
                err |-> IF h.err = "ok" THEN r.err ELSE h.err,
                unhindered |-> IF h.err = "ok" THEN unhindered.err ELSE h.err,
                pre_stepped |-> stepped]
     /\ UNCHANGED <<db_vars, lock_vars, wq_vars, open_vars, file_vars, lock,
                    adm_access, root_vars, calls>>

StmtScanAddition(P) ==
  /\ nops < MaxOps
  /\ StmtReturned("scan_addition", P,
                  scan_addition_stmt(DB, repository, P, P, FALSE, stepped),
                  scan_addition_stmt(DB, repository, P, P, FALSE, {}))

StmtScanDeletion(P) ==
  /\ nops < MaxOps
  /\ StmtReturned("scan_deletion", P,
                  scan_deletion_stmt(DB, P, P, "base_deleted", FALSE, stepped),
                  scan_deletion_stmt(DB, P, P, "base_deleted", FALSE, {}))

StmtScanBaseRepos(P) ==
  /\ nops < MaxOps
  /\ StmtReturned("scan_base_repos", P,
                  scan_base_repos_stmt(DB, repository, P, stepped),
                  scan_base_repos_stmt(DB, repository, P, {}))

NextStmt ==
  \/ \E P \in ScanPaths : StmtScanAddition(P)
  \/ \E P \in ScanPaths : StmtScanDeletion(P)
  \/ \E P \in ScanPaths : StmtScanBaseRepos(P)

SpecStmt == InitStmt /\ [][NextStmt]_vars

(* C33: when a public operation returns, on success and on every error     *)
(* path, each statement it stepped has been reset, so a call ends the same *)
(* way whatever calls failed before it.                                    *)
C33_StatementsReset ==
  ret.op \in {"scan_addition", "scan_deletion", "scan_base_repos"}
    => /\ stepped = {}
       /\ ret.err = ret.unhindered

-----------------------------------------------------------------------------
(* The handles a climbing resolution leaves behind.                        *)

(* The directory where the climb of the last resolution ended.             *)
ClimbTop == CHOOSE r \in ret.climbed : \A q \in ret.climbed : Len(r) <= Len(q)

(* The directories from where the climb ended down to the requested one.   *)
ClimbChain ==
  {q \in Chain(StartDir(ret.path)) : svn_dirent_is_ancestor(ClimbTop, q)}

Climbed ==
  /\ ret.op = "parse_local_abspath"
  /\ ret.err = "ok"
  /\ Cardinality(ret.climbed) > 1

(* C34: after a resolution that climbed from its directory T to the        *)
(* directory R where a database or a cached handle with a wcroot was       *)
(* found, the cache holds a handle for T, for R and for every directory    *)
(* between them, all with the same wcroot, and the parent pointer of each  *)
(* handle below R designates the handle of its parent directory.           *)
C34_ChainFilled ==
  Climbed =>
    /\ ClimbChain \subseteq DOMAIN dir_data
    /\ \A q \in ClimbChain :
         /\ dir_data[q].wcroot # NoWcroot
         /\ dir_data[q].wcroot = dir_data[StartDir(ret.path)].wcroot
         /\ q # ClimbTop
              => dir_data[q].parent = dir_data[svn_dirent_dirname(q)].id

(* A climb over two levels that met a handle without wcroot on its way and *)
(* ended at the database.                                                  *)
C34_Witness ==
  /\ Climbed
  /\ Cardinality(ClimbChain) = 3
  /\ ClimbTop \in disk
  /\ \E q \in ClimbChain \ {ClimbTop} :
       q \in DOMAIN ret.pre_dd /\ ret.pre_dd[q].wcroot = NoWcroot
  /\ \A q \in ClimbChain : dir_data[q].wcroot = Len(wcroots)

-----------------------------------------------------------------------------
(* Resolving the same path again.                                          *)

(* What parse_local_abspath hands back now for the path of the last        *)
(* resolution: error, handle and local_relpath.                            *)
Again ==
  LET r == parse_abspath(Cache, disk, ret.path)
  IN <<r.err,
       IF r.err = "ok" THEN <<r.pdh, r.dir_data[r.pdh].id>> ELSE <<>>,
       r.relpath>>

(* What the last resolution handed back.                                   *)
First ==
  <<ret.err,
    IF ret.err = "ok" THEN <<ret.found[1], dir_data[ret.found[1]].id>>
                      ELSE <<>>,
    ret.found[2]>>

(* C35: a second resolution of the same path, with the disk and the        *)
(* databases unchanged, returns the handle and the local_relpath of the    *)
(* first, whatever handles the cache held before the first one.            *)
C35_Repeatable ==
  ret.op = "parse_local_abspath" => Again = First

-----------------------------------------------------------------------------
(* VERIFY_USABLE_PDH.  Sessions on a database of any format, opened with   *)
(* or without auto_upgrade: create_wcroot leaves a wcroot of an older      *)
(* format when it may not upgrade, and the calls differ in whether they    *)
(* look at the format before they run their statements.                    *)

(* A call that does not look at the wcroot it resolved.                    *)
unverified(r) == r.err

(* VERIFY_USABLE_PDH(pdh) after a resolution that succeeded.               *)
VERIFY_USABLE_PDH(r) ==
  IF r.err = "ok" /\ r.format # SVN_WC__VERSION
    THEN "assertion_fail" ELSE r.err

UsableReturned(op, P, r, err) ==
  /\ nops < MaxOps
  /\ nops' = nops + 1
  /\ dir_data' = r.dir_data
  /\ format' = r.format
  /\ ret' = [op |-> op, path |-> P, err |-> err, resolved |-> r.err,
             wcroot_format |-> r.format, pre |-> DB]
  /\ UNCHANGED <<pristine, repository, lock_vars, wq_vars, engine,
                 file_vars, aux_vars>>

(* svn_wc__db_op_set_props: parse_local_abspath, then the transaction.     *)
UsableSetProps(P, props) ==
  LET r == resolve_path(dir_data, P, format, engine, work_queue)
      err == unverified(r)
  IN /\ UsableReturned("op_set_props", P, r, err)
     /\ Apply(IF err = "ok" THEN op_set_props(DB, P, props) ELSE DB)

(* svn_wc__db_op_set_changelist: parse_local_abspath, VERIFY_USABLE_PDH,   *)
(* then the transaction.                                                   *)
UsableSetChangelist(P, changelist) ==
  LET r == resolve_path(dir_data, P, format, engine, work_queue)
      err == VERIFY_USABLE_PDH(r)
  IN /\ UsableReturned("op_set_changelist", P, r, err)
     /\ Apply(IF err = "ok" THEN op_set_changelist(DB, P, changelist)
                            ELSE DB)

(* svn_wc__db_base_remove: parse_local_abspath, VERIFY_USABLE_PDH, then    *)
(* the delete.                                                             *)
UsableBaseRemove(P) ==
  LET r == resolve_path(dir_data, P, format, engine, work_queue)
      err == VERIFY_USABLE_PDH(r)
  IN /\ UsableReturned("base_remove", P, r, err)
     /\ Apply(IF err = "ok" THEN base_remove(DB, P) ELSE DB)

UsableClose ==
  /\ dir_data # NoHandles
  /\ dir_data' = NoHandles
  /\ ret' = [op |-> "close", path |-> <<>>, err |-> "ok"]
  /\ UNCHANGED <<db_vars, nops, lock_vars, wq_vars, open_vars, file_vars,
                 aux_vars>>

NextUsable ==
  \/ \E P \in Paths, props \in {NULL, "h3"} : UsableSetProps(P, props)
  \/ \E P \in Paths, cl \in {NULL, "cl1"} : UsableSetChangelist(P, cl)
  \/ \E P \in Paths : UsableBaseRemove(P)
  \/ UsableClose

SpecUsable == InitQueue /\ [][NextUsable]_vars

(* C36: a public operation whose resolved handle has a wcroot of another   *)
(* format than the current one fails and leaves the tables as they were;   *)
(* no statement is run through such a handle.                              *)
C36_UsableChecked ==
  (/\ ret.op \in {"op_set_props", "op_set_changelist", "base_remove"}
   /\ ret.resolved = "ok"
   /\ ret.wcroot_format # SVN_WC__VERSION)
    => /\ ret.err # "ok"
       /\ DB = ret.pre

-----------------------------------------------------------------------------
(* Tree conflicts of the children across a commit of their directory.      *)
(* The descriptors of the children live in tree_conflict_data of the       *)
(* directory's own ACTUAL row, which commit_node resets or deletes.        *)

ChildNames == {"a", "b"}

children_conflicts(db, dir) ==
  [c \in ChildNames |-> op_read_tree_conflict(db, dir \o <<c>>)]

(* The kind commit_node gives the committed node.                          *)
committed_kind(db, p) ==
  IF have(db.working, p) THEN db.working[p].kind
  ELSE IF have(db.base, p) THEN db.base[p].kind ELSE NULL

(* C37: global_commit(P) leaves the tree conflicts recorded for the        *)
(* children of directory P unchanged: for every child c of P,              *)
(* op_read_tree_conflict(P/c) returns after the commit what it returned    *)
(* before it, with keep_changelist set or unset.                           *)
C37_ChildConflictsKept ==
  (/\ ret.op = "global_commit"
   /\ committed_kind(ret.pre, ret.path) = "dir")
    => children_conflicts(DB, ret.path) = children_conflicts(ret.pre, ret.path)

-----------------------------------------------------------------------------
(* The two presence assertions of read_info, as conditions on the rows.    *)

override_allowed(db, p) ==
  (have(db.base, p) /\ have(db.working, p))
    => presence_status(db.base[p].presence) \notin {"absent", "excluded"}

working_presence_known(db, p) ==
  have(db.working, p)
    => presence_status(db.working[p].presence)
         \in {"normal", "not_present", "base_deleted", "incomplete"}

presence_asserted(db) ==
  \A p \in Paths : override_allowed(db, p) /\ working_presence_known(db, p)

(* C38: from a database where no path has a WORKING row over an absent or  *)
(* excluded BASE row and every WORKING presence is normal, not_present,    *)
(* base_deleted or incomplete, no sequence of public operations reaches a  *)
(* state that breaks either condition, so read_info never ends in an       *)
(* assertion failure.                                                      *)
C38_PresenceAsserted ==
  /\ presence_asserted(DB)
  /\ \A p \in Paths : read_info(DB, p).err # "assertion"

-----------------------------------------------------------------------------
(* The upward scans in a session that also adds absent BASE nodes: the     *)
(* working copies of ClimbTables obey what the scans expect, and           *)
(* base_add_absent_node is the public call that writes on top of them.     *)

ClimbAddAbsentNode(P, status) ==
  /\ status \in {"absent", "excluded", "not_present"}
  /\ BaseAddAbsentNode(P, 1, "dir", status)

ClimbBaseRepos(P) ==
  LET r == get_statement_for_path(dir_data, P, format, engine, work_queue)
      out == scan_base_repos(DB, repository, P)
  IN /\ dir_data' = r.dir_data
     /\ ScanReturned("scan_base_repos", P,
                     IF r.err = "ok" THEN out.err ELSE r.err, out)
     /\ UNCHANGED <<db_vars, nops, lock_vars, wq_vars, open_vars, file_vars, aux_vars>>

NextClimb ==
  \/ \E P \in ScanNodes, status \in {"absent", "not_present"} :
       ClimbAddAbsentNode(P, status)
  \/ \E P \in ScanPaths : ScanAddition(P)
  \/ \E P \in ScanPaths : ScanDeletion(P)
  \/ \E P \in ScanPaths : ClimbBaseRepos(P)

(* The working copies without copies and moves.                            *)
ClimbTables ==
  {db \in StmtTables :
     \A p \in DOMAIN db.working :
       /\ db.working[p].copyfrom_repos_id = SqlNullInt
       /\ db.working[p].moved_to = SqlNullPath}

InitClimb ==
  /\ \E db \in ClimbTables :
       /\ base_node = db.base
       /\ working_node = db.working
       /\ actual_node = db.actual
  /\ pristine = EmptyTable
  /\ repository = FirstRepository
  /\ dir_data = NoHandles
  /\ ret = [op |-> "open", path |-> <<>>, err |-> "ok"]
  /\ nops = 0
  /\ QuietSession

SpecClimb == InitClimb /\ [][NextClimb]_vars

(* What each scan states about the node it starts from: a BASE row for     *)
(* scan_base_repos, a WORKING row of presence normal for scan_addition, a  *)
(* WORKING row of presence not-present or base-deleted for scan_deletion.  *)
scan_precondition(db, op, p) ==
  CASE op = "scan_base_repos" -> have(db.base, p)
    [] op = "scan_addition" ->
         have(db.working, p) /\ db.working[p].presence = "normal"
    [] op = "scan_deletion" ->
         have(db.working, p) /\ Deleted(db.working[p])
    [] OTHER -> FALSE

ScanErrors ==
  {"ok", "wc_path_not_found", "wc_corrupt", "wc_path_unexpected_status",
   "wc_not_working_copy"}

(* C39: the upward scans end on every database with a result or one of the *)
(* errors wc_path_not_found, wc_corrupt, wc_path_unexpected_status,        *)
(* wc_not_working_copy, never with an internal assertion failure, for      *)
(* every start node that satisfies the precondition of the scan.           *)
C39_ScansEnd ==
  scan_precondition(DB, ret.op, ret.path) => ret.err \in ScanErrors

====
